---- MODULE Spec2Model ----
(***************************************************************************)
(* Arque event-sourcing runtime: the PostgreSQL store adapter              *)
(* (saveEvents, listEvents, finalizeAggregate) as concurrent transactions  *)
(* at READ COMMITTED, and the aggregate engine's process() on top of it.   *)
(***************************************************************************)
EXTENDS Integers, Sequences, FiniteSets, TLC

\* ------------------------------------------------------------------ bounds

\* Largest aggregate.version a saveEvents call may claim.
MaxVersion == 2
\* Largest number of events in one saveEvents batch.
MaxBatch == 2
\* opts.retryMaxAttempts of the store adapter (default 20, configurable).
RetryMaxAttempts == 2
\* The attempt cap of Aggregate.process (configurable).
ProcessMaxAttempts == 2
\* Largest aggregate.version of an event delivered to the projection.
MaxEventVersion == 2
\* Deliveries (first arrivals and redeliveries) to the projection in a run.
MaxDeliveries == 5
\* Partitions of every topic of the stream.
NumPartitions == 2
\* opts.snapshotInterval of the Aggregate (default 20, configurable).
SnapshotInterval == 2
\* Snapshots written by other Aggregate instances in a run.
MaxSnapshots == 2
\* saveSnapshot calls made directly on the adapter in a run.
MaxSnapshotCalls == 3
\* Highest version a snapshot is saved under directly.
MaxSnapshotVersion == 2
\* listEvents, and findLatestSnapshot, calls of a run.
MaxReads == 2
\* Longest event log of the aggregate nobody saves through the model.
MaxOtherLog == 2
\* opts.cacheMax of the AggregateFactory (default 2046, configurable).
CacheMax == 1
\* reload() failures of a run of the AggregateFactory.
MaxFailures == 1
\* opts.retry.numOfAttempts of the subscriber (default 24, configurable).
NumOfAttempts == 3
\* Messages the subscriber receives in a run.
MaxMessages == 2
\* start() calls on the Projection object in a run.
MaxStarts == 3
\* Events a started Projection is handed in a run.
MaxStartHandled == 2
\* Failed sendEvents calls of the Broker for one event in a run.
MaxSendFailures == 1
\* reload() calls of one caller in a run.
MaxReloads == 1
\* process() calls made in a run.
MaxCommands == 3
\* Longest event log of a run of the aggregate engine.
MaxLog == 4

\* Aggregate ids (13-byte buffers in the code).
Ids == {"a"}
\* Concurrent callers of saveEvents, each on its own pooled client.
Writers == {"w1", "w2"}

None == "none"
AggregateVersionConflictError == "AggregateVersionConflictError"
AggregateIsFinalError == "AggregateIsFinalError"
\* Postgres error codes the adapter classifies as retryable.
RetryCodes == {"40001", "40P01"}
\* unique_violation
UniqueViolation == "23505"
\* The codes a statement of a run is made to fail with: a serialization
\* failure, and an error the adapter does not classify (internal_error).
ThrownCodes == {"40001", "XX000"}

VARIABLES
    aggregates,  \* table aggregates: id -> row (committed)
    events,      \* table events: set of rows (committed)
    lock,        \* row lock on aggregates[id]: the transaction holding it
    call,        \* per writer: the saveEvents call in progress / last finished
    fin,         \* the finalizeAggregate transaction
    saved,       \* history: the saveEvents calls that resolved
    finalized,   \* history: the ids a finalizeAggregate call has returned for
    agg,         \* the Aggregate instance and its process() call
    main,        \* stream `main`: the batches sendEvents published, in order
    saveLog,     \* history: the saveEvents calls of the Aggregate
    results,     \* history: how each process() call ended
    projection_checkpoints,  \* table projection_checkpoints: set of rows
    inst,        \* per Projection instance: the handleEvent call in progress
    arrived,     \* history: the type of each event delivered so far
    handledLog,  \* history: the handler completions, in order
    deliveries,  \* history: how the deliveries of the run went
    skipped,     \* history: number of deliveries skipped as duplicates
    topics,      \* the stream: topic -> partition -> messages not yet consumed
    registry,    \* table streams: stream id -> registered event types
    cache,       \* the config adapter's LRU cache: event type -> stream ids
    filled,      \* history: the registry as it was when cache[type] was filled
    broker,      \* the Broker's handler call in progress
    routed,      \* history: what the Broker did with each event it received
    published,   \* history: per aggregate, the version last sent to `main`
    snapshots,   \* table snapshots: set of rows
    snapshotQueue,  \* saveSnapshotQueue: the saveSnapshot calls not yet run
    snapshotCalls,  \* history: the saveSnapshot calls of the Aggregate
    handlerKind, \* which event handler the Aggregate was constructed with
    rl,          \* per caller: the reload() call in progress
    mutex,       \* the caller whose reload() holds the Aggregate, or None
    reloaded,    \* history: the reload() calls since the log last changed
    snapshotLog, \* history: the saveSnapshot calls that ran, with their outcome
    lookup,      \* the last findLatestSnapshot call and what it returned
    listed,      \* the last listEvents call and what it yielded
    lru,         \* AggregateFactory.cache: entries [id, inst], least recent first
    instances,   \* the Aggregates constructed by the factory, in order
    loaders,     \* per caller: the AggregateFactory.load call
    removed,     \* history: ids whose cache entry was deleted, evicted or expired
    sub,         \* the subscriber's eachMessage callback and its backOff
    wire,        \* an event, its serialized message and the event decoded from it
    starts,      \* the Projection object: its start() calls and subscriptions
    procs        \* per caller: the process() call on the shared Aggregate

storeVars == <<aggregates, events, lock>>
txVars == <<lock, call, fin, saved, finalized>>
snapshotVars == <<snapshots, snapshotQueue, snapshotCalls>>
engineVars == <<agg, main, saveLog, results, snapshotVars>>
reloadVars == <<handlerKind, rl, mutex, reloaded>>
factoryVars == <<lru, instances, loaders, removed>>
\* What the direct calls of the store adapter leave alone.
subscriberVars == <<sub>>
serializationVars == <<wire>>
lateVars == <<starts, procs>>
moreVars == <<factoryVars, subscriberVars, serializationVars, lateVars>>
adapterVars == <<snapshotLog, lookup, listed, moreVars>>
projectionVars == <<projection_checkpoints, inst, arrived, handledLog,
                    deliveries, skipped>>
\* What the store transactions and the aggregate engine leave alone.
pipelineVars == <<topics, registry, cache, filled, broker, routed, published>>
restVars == <<projectionVars, pipelineVars, reloadVars, adapterVars>>
\* What the projection leaves alone.
coreVars == <<aggregates, events, txVars, engineVars, reloadVars, adapterVars>>
coreVarsButReload == <<aggregates, events, txVars, engineVars>>
vars == <<aggregates, events, lock, call, fin, saved, finalized,
          agg, main, saveLog, results, projectionVars, pipelineVars,
          snapshotVars, reloadVars, adapterVars>>

\* ------------------------------------------------------------- the tables

\* A row of table aggregates (exists = FALSE: no row for the id).
NoRow == [exists |-> FALSE, version |-> 0, final |-> FALSE]

EventsOf(id) == {e \in events : e.aggregate_id = id}

\* The Event the listEvents generator yields for a row. A body of plain
\* numbers ({balance, amount}) passes serialize, JSON.stringify and
\* deserialize unchanged.
RowToEvent(row) ==
    [type |-> row.type,
     aggregate |-> [id |-> row.aggregate_id, version |-> row.aggregate_version],
     body |-> row.body]

\* ORDER BY aggregate_version ASC over a set of event rows.
RECURSIVE OrderByVersion(_)
OrderByVersion(rows) ==
    IF rows = {} THEN <<>>
    ELSE LET lo == CHOOSE r \in rows :
                     \A s \in rows : r.aggregate_version <= s.aggregate_version
         IN  <<RowToEvent(lo)>> \o OrderByVersion(rows \ {lo})

\* Mutant: the query has no aggregate_id condition.
listEvents_AnyAggregate(id, version) ==
    OrderByVersion({e \in events : version = 0 \/ e.aggregate_version > version})

\* Mutant: the listing starts at the given version, not after it.
listEvents_Inclusive(id, version) ==
    OrderByVersion({e \in EventsOf(id) : e.aggregate_version >= version})

\* listEvents({aggregate: {id, version}}): the version filter is applied only
\* when version is truthy (non-zero).
listEvents(id, version) ==
    OrderByVersion({e \in EventsOf(id) :
                      version = 0 \/ e.aggregate_version > version})

\* ------------------------------------------------------------- saveEvents

\* Mutant: the final flag is never checked.
SelectFinal_Never(row) == FALSE

\* SELECT final FROM aggregates WHERE id = $1; rows[0]?.final
SelectFinal(row) == row.exists /\ row.final

\* INSERT INTO aggregates ... : unique violation (23505) when the id exists.
InsertAggregateConflicts(row) == row.exists

\* Mutant: the UPDATE has no `final IS NOT TRUE` condition.
UpdateAggregateMatches_IgnoresFinal(row, version) ==
    row.exists /\ row.version = version - 1

\* Mutant: the UPDATE does not compare the stored version.
UpdateAggregateMatches_NoVersion(row, version) == row.exists /\ ~row.final

\* UPDATE aggregates ... WHERE id = $3 AND version = $4 AND final IS NOT TRUE
\* with $4 = params.aggregate.version - 1: whether a row matches.
UpdateAggregateMatches(row, version) ==
    row.exists /\ row.version = version - 1 /\ ~row.final

\* Mutant: the UPDATE sets the version to version + events.length.
WrittenRow_PlusLength(row, version, n) ==
    IF version = 1
    THEN [exists |-> TRUE, version |-> n, final |-> FALSE]
    ELSE [row EXCEPT !.version = version + n]

\* The aggregates row the transaction writes.
WrittenRow(row, version, n) ==
    IF version = 1
    THEN [exists |-> TRUE, version |-> n, final |-> FALSE]
    ELSE [row EXCEPT !.version = version + n - 1]

\* Mutant: the loop numbers the events from version + 1.
InsertedEvent_OffByOne(id, version, index, event) ==
    [aggregate_id |-> id, aggregate_version |-> version + index + 1,
     type |-> event.type, body |-> event.body, final |-> FALSE]

\* The row the INSERT INTO events writes in iteration `index` of the loop.
InsertedEvent(id, version, index, event) ==
    [aggregate_id |-> id, aggregate_version |-> version + index,
     type |-> event.type, body |-> event.body, final |-> FALSE]

\* idx_events_aggregate_id_version: UNIQUE (aggregate_id, aggregate_version).
EventKeyTaken(rows, e) ==
    \E r \in rows : /\ r.aggregate_id = e.aggregate_id
                    /\ r.aggregate_version = e.aggregate_version

\* Mutant: the rows inserted before the error stay.
RolledBack_Keeps(rows) == rows

\* What ROLLBACK leaves of the rows the transaction inserted.
RolledBack(rows) == {}

\* Event types.
BalanceUpdated == 0

\* The events of a batch of n events handed to saveEvents by a writer.
BatchOf(n) ==
    [i \in 1 .. n |-> [type |-> BalanceUpdated,
                       body |-> [balance |-> 0, amount |-> 0]]]

IdleCall == [pc |-> "idle", id |-> "a", version |-> 1, n |-> 1, attempt |-> 0,
             rows |-> {}, res |-> None, last |-> None,
             atTip |-> FALSE, wasFinal |-> FALSE, afterFinalize |-> FALSE]

\* The log of id ends at version - 1 and the aggregate is not final.
AtTip(row, version) ==
    ~row.final /\ row.version = version - 1 /\ (row.exists <=> version > 1)

\* What a finished call keeps: its parameters and its result.
Finished(c, res) ==
    [c EXCEPT !.pc = "done", !.res = res, !.n = 1, !.attempt = 0, !.rows = {},
              !.last = None]

\* BEGIN; SELECT final ...; throw AggregateIsFinalError when final (ROLLBACK).
Begin(c, row) ==
    IF SelectFinal(row) THEN Finished(c, AggregateIsFinalError)
    ELSE [c EXCEPT !.pc = "checked"]

\* A caller invokes saveEvents(params); assert.ok(version > 0) holds.  The
\* first attempt opens its transaction and reads the final flag.
SaveEventsCall(w, id, version, n) ==
    /\ call[w].pc \in {"idle", "done"}
    /\ call' = [call EXCEPT ![w] =
                  Begin([pc |-> "begin", id |-> id, version |-> version, n |-> n,
                         attempt |-> 1, rows |-> {}, res |-> None,
                         last |-> None,
                         atTip |-> AtTip(aggregates[id], version),
                         wasFinal |-> aggregates[id].final,
                         afterFinalize |-> id \in finalized],
                        aggregates[id])]
    /\ UNCHANGED <<storeVars, fin, saved, finalized, engineVars, restVars>>

\* A retried attempt opens its transaction and reads the final flag.
SaveEventsBegin(w) ==
    /\ call[w].pc = "begin"
    /\ call' = [call EXCEPT ![w] = Begin(@, aggregates[call[w].id])]
    /\ UNCHANGED <<storeVars, fin, saved, finalized, engineVars, restVars>>

\* The INSERT (version = 1) or UPDATE (version > 1) of the aggregates row.  A
\* statement that has to touch a row locked by another transaction waits for
\* that transaction to end and is then evaluated against the committed row.
SaveEventsWriteAggregate(w) ==
    LET c == call[w]
        row == aggregates[c.id]
        conflicts == IF c.version = 1
                     THEN InsertAggregateConflicts(row)
                     ELSE ~UpdateAggregateMatches(row, c.version)
        waits == IF c.version = 1
                 THEN lock[c.id] # None
                 ELSE UpdateAggregateMatches(row, c.version) /\ lock[c.id] # None
    IN  /\ c.pc = "checked"
        /\ ~waits
        /\ IF conflicts
           THEN /\ call' = [call EXCEPT ![w] =
                               Finished(@, AggregateVersionConflictError)]
                /\ UNCHANGED lock
           ELSE /\ call' = [call EXCEPT ![w].pc = "inserting"]
                /\ lock' = [lock EXCEPT ![c.id] = w]
        /\ UNCHANGED <<aggregates, events, fin, saved, finalized, engineVars, restVars>>

\* Mutant: the retry callback of backOff accepts every error.
Thrown_RetriesAll(c, code) ==
    IF c.attempt < RetryMaxAttempts
    THEN [c EXCEPT !.pc = "begin", !.attempt = @ + 1, !.rows = {},
                   !.last = code]
    ELSE Finished(c, code)

\* catch: ROLLBACK; throw err.  backOff retries a retryable code while
\* attempts remain and rethrows otherwise.
Thrown(c, code) ==
    IF code \in RetryCodes /\ c.attempt < RetryMaxAttempts
    THEN [c EXCEPT !.pc = "begin", !.attempt = @ + 1, !.rows = {},
                   !.last = code]
    ELSE Finished(c, code)

\* One iteration of the INSERT INTO events loop: the row is inserted, or the
\* unique index on (aggregate_id, aggregate_version) rejects it.
SaveEventsInsertEvent(w) ==
    LET c == call[w]
        index == Cardinality(c.rows)
        e == InsertedEvent(c.id, c.version, index, BatchOf(c.n)[index + 1])
    IN  /\ c.pc = "inserting"
        /\ Cardinality(c.rows) < c.n
        /\ IF EventKeyTaken(events, e)
           THEN /\ events' = events \cup RolledBack(c.rows)
                /\ lock' = [lock EXCEPT ![c.id] = None]
                /\ call' = [call EXCEPT ![w] = Thrown(@, UniqueViolation)]
           ELSE /\ call' = [call EXCEPT ![w].rows = @ \cup {e}]
                /\ UNCHANGED <<events, lock>>
        /\ UNCHANGED <<aggregates, fin, saved, finalized, engineVars, restVars>>

\* An iteration of the loop fails with `code`.
SaveEventsError(w, code) ==
    LET c == call[w] IN
    /\ c.pc = "inserting"
    /\ Cardinality(c.rows) < c.n
    /\ events' = events \cup RolledBack(c.rows)
    /\ lock' = [lock EXCEPT ![c.id] = None]
    /\ call' = [call EXCEPT ![w] = Thrown(@, code)]
    /\ UNCHANGED <<aggregates, fin, saved, finalized, engineVars, restVars>>

\* COMMIT: the aggregates row and the batch become visible together, and
\* saveEvents resolves.
SaveEventsCommit(w) ==
    LET c == call[w] IN
    /\ c.pc = "inserting"
    /\ Cardinality(c.rows) = c.n
    /\ aggregates' = [aggregates EXCEPT ![c.id] =
                        WrittenRow(aggregates[c.id], c.version, c.n)]
    /\ events' = events \cup c.rows
    /\ lock' = [lock EXCEPT ![c.id] = None]
    /\ call' = [call EXCEPT ![w] = Finished(@, "ok")]
    /\ saved' = saved \cup
          {[id |-> c.id, version |-> c.version, n |-> c.n,
            dup |-> Cardinality({s \in saved : s.id = c.id /\ s.version = c.version})]}
    /\ UNCHANGED <<fin, finalized, engineVars, restVars>>

\* ------------------------------------------------------ finalizeAggregate

IdleFin == [pc |-> "idle", id |-> "a", row |-> FALSE, marked |-> {}]

\* BEGIN; UPDATE aggregates SET final = TRUE WHERE id = $1: updates the
\* committed row when there is one (waiting for its lock), else no row.
FinalizeUpdateAggregate(id) ==
    /\ fin.pc = "idle"
    /\ IF aggregates[id].exists
       THEN /\ lock[id] = None
            /\ lock' = [lock EXCEPT ![id] = "fin"]
            /\ fin' = [fin EXCEPT !.pc = "aggregate", !.id = id, !.row = TRUE]
       ELSE /\ fin' = [fin EXCEPT !.pc = "aggregate", !.id = id]
            /\ UNCHANGED lock
    /\ UNCHANGED <<aggregates, events, call, saved, finalized, engineVars, restVars>>

\* UPDATE events SET final = TRUE WHERE aggregate_id = $1: the rows committed
\* when the statement runs.
FinalizeUpdateEvents ==
    /\ fin.pc = "aggregate"
    /\ fin' = [fin EXCEPT !.pc = "events",
                          !.marked = {e.aggregate_version : e \in EventsOf(fin.id)}]
    /\ UNCHANGED <<storeVars, call, saved, finalized, engineVars, restVars>>

\* COMMIT, and finalizeAggregate resolves.
FinalizeCommit ==
    /\ fin.pc = "events"
    /\ aggregates' = IF fin.row
                     THEN [aggregates EXCEPT ![fin.id].final = TRUE]
                     ELSE aggregates
    /\ events' = {IF e.aggregate_id = fin.id /\ e.aggregate_version \in fin.marked
                  THEN [e EXCEPT !.final = TRUE] ELSE e : e \in events}
    /\ lock' = IF fin.row THEN [lock EXCEPT ![fin.id] = None] ELSE lock
    /\ fin' = IdleFin
    /\ finalized' = finalized \cup {fin.id}
    /\ UNCHANGED <<call, saved, engineVars, restVars>>

\* ------------------------------------------- saveEvents, run as one step

\* The rows the INSERT INTO events loop writes for a batch.
InsertedEvents(id, version, batch) ==
    {InsertedEvent(id, version, i - 1, batch[i]) : i \in 1 .. Len(batch)}

\* How a saveEvents call ends when no other transaction runs during it.
SaveEventsResult(id, version, batch) ==
    LET row == aggregates[id] IN
    IF SelectFinal(row) THEN AggregateIsFinalError
    ELSE IF IF version = 1 THEN InsertAggregateConflicts(row)
            ELSE ~UpdateAggregateMatches(row, version)
         THEN AggregateVersionConflictError
    ELSE IF \E e \in InsertedEvents(id, version, batch) : EventKeyTaken(events, e)
         THEN UniqueViolation
    ELSE "ok"

\* The tables after that call.
SaveEventsTables(id, version, batch) ==
    IF SaveEventsResult(id, version, batch) = "ok"
    THEN [aggregates |-> [aggregates EXCEPT ![id] =
                             WrittenRow(aggregates[id], version, Len(batch))],
          events |-> events \cup InsertedEvents(id, version, batch)]
    ELSE [aggregates |-> aggregates, events |-> events]

\* ------------------------------------------------- the test aggregate

InsufficientBalance == "insufficient balance"

\* const balance = ctx.state.balance + amount; throws when it is negative,
\* else returns the event descriptor {type, body: {balance, amount}}.
UpdateBalanceCommandHandler(state, amount) ==
    LET balance == state.balance + amount IN
    IF balance < 0
    THEN [throws |-> TRUE, error |-> InsufficientBalance]
    ELSE [throws |-> FALSE,
          event |-> [type |-> BalanceUpdated,
                     body |-> [balance |-> balance, amount |-> amount]]]

\* handle(_, event) { return { balance: event.body.balance } }
BalanceUpdatedEventHandler(state, event) == [balance |-> event.body.balance]

\* The state the tests construct the aggregate with.
ZeroState == [balance |-> 0]

\* ------------------------------------------------------- Aggregate engine

\* Callers of reload() on the one Aggregate instance.
Callers == {"r1", "r2"}

\* The id of the Aggregate instance.
AggId == "a"

\* The arguments of the UpdateBalance commands of a run.
Amounts == {10, -5}
\* The amounts another writer of the same aggregate appends.
OtherAmounts == {5, -5}

\* An event handler that accumulates into the previous state.
AccumulatingEventHandler(state, event) ==
    [balance |-> state.balance + event.body.amount]

\* The event handlers an Aggregate can be constructed with.
HandlerKinds == {"assign", "accumulate"}

\* state := handler(state, event) for the event handler of the Aggregate; a
\* missing handler is skipped; the version becomes that of the event.
Digest(a, e) ==
    LET st == IF e.type # BalanceUpdated THEN a.state
              ELSE IF handlerKind = "accumulate"
                   THEN AccumulatingEventHandler(a.state, e)
                   ELSE BalanceUpdatedEventHandler(a.state, e)
    IN  [a EXCEPT !.state = st, !.version = e.aggregate.version]

\* Apply the event handlers to events in order.
RECURSIVE Replay(_, _)
Replay(a, evs) ==
    IF evs = <<>> THEN a ELSE Replay(Digest(a, Head(evs)), Tail(evs))

\* Step 5: the i-th produced event gets aggregate.version = version + 1 + i.
Produced(a, descriptors) ==
    [i \in 1 .. Len(descriptors) |->
        [type |-> descriptors[i].type,
         aggregate |-> [id |-> AggId, version |-> a.version + i],
         body |-> descriptors[i].body]]

\* Mutant: the fold of the produced events leaves the version where it was.
Folded_KeepsVersion(a, evs) == [Replay(a, evs) EXCEPT !.version = a.version]

\* Step 7: fold the produced events through the event handlers.
Folded(a, evs) == Replay(a, evs)

\* Mutant: one attempt more than the cap.
MayRetry_OneMore(attempt) == attempt <= ProcessMaxAttempts

\* Step 6: a version conflict is retried while attempts remain.
MayRetry(attempt) == attempt < ProcessMaxAttempts

\* Mutant: a retry saves the event of the first attempt again.
AfterReload_KeepsEvent(a) == IF a.attempt > 1 THEN "save" ELSE "handle"

\* After the reload the command handler runs (again, on a retry).
AfterReload(a) == "handle"

\* Mutant: a handler error is retried like a version conflict.
HandlerThrew_Retried(a, error) == [a EXCEPT !.pc = "reload"]

\* Step 4: a domain error propagates unchanged; process() rejects.
HandlerThrew(a, error) == [a EXCEPT !.pc = "rejected", !.error = error]

\* Mutant: the events are folded and sent whatever saveEvents answered.
SaveSucceeded_Always(res) == TRUE

\* Step 6: saveEvents resolved.
SaveSucceeded(res) == res = "ok"

CommandHandlerMissing == "CommandHandlerMissing"

\* The command types of the run, and those the Aggregate has a handler for.
CommandTypes == {"UpdateBalance", "CloseAccount"}
CommandHandlerTypes == {"UpdateBalance"}

\* Mutant: a command of any type is given to the registered handler.
HasCommandHandler_Any(type) == TRUE

\* Step 2: look up the command handler by type.
HasCommandHandler(type) == type \in CommandHandlerTypes

NewAggregate ==
    [pc |-> "idle", version |-> 0, state |-> ZeroState, amount |-> 0,
     attempt |-> 0, batch |-> <<>>, error |-> None, threw |-> FALSE,
     reloaded |-> [version |-> 0, state |-> ZeroState, saves |-> 0, sends |-> 0],
     saves |-> 0, sends |-> 0, type |-> "UpdateBalance"]

\* process({type: UpdateBalance, args: [{amount}]}) is called.
ProcessCall(amount) ==
    /\ agg.pc \in {"idle", "resolved", "rejected"}
    /\ Len(results) < MaxCommands
    /\ agg' = [agg EXCEPT !.pc = "reload", !.amount = amount, !.attempt = 1,
                          !.batch = <<>>, !.error = None, !.threw = FALSE,
                          !.saves = Len(saveLog), !.sends = Len(main),
                          !.type = "UpdateBalance"]
    /\ UNCHANGED <<aggregates, events, txVars, restVars, main, saveLog, results,
                   snapshotVars>>

\* process({type, args}) is called with a command type the Aggregate was
\* given no handler for.
ProcessCallUnregistered(type) ==
    /\ agg.pc \in {"idle", "resolved", "rejected"}
    /\ Len(results) < MaxCommands
    /\ type \in CommandTypes \ CommandHandlerTypes
    /\ agg' = [agg EXCEPT !.pc = "reload", !.amount = 0, !.attempt = 1,
                          !.batch = <<>>, !.error = None, !.threw = FALSE,
                          !.saves = Len(saveLog), !.sends = Len(main),
                          !.type = type]
    /\ UNCHANGED <<aggregates, events, txVars, restVars, main, saveLog, results,
                   snapshotVars>>

\* Mutant: the latest snapshot is inserted under the next version.
InsertedSnapshot_NextVersion(snapshot) ==
    [aggregate_id |-> snapshot.aggregate.id,
     aggregate_version |-> snapshot.aggregate.version + 1,
     state |-> snapshot.state]

\* INSERT INTO snapshots (aggregate_id, aggregate_version, state, timestamp).
\* A state of plain numbers passes serialize and JSON.stringify unchanged.
InsertedSnapshot(snapshot) ==
    [aggregate_id |-> snapshot.aggregate.id,
     aggregate_version |-> snapshot.aggregate.version,
     state |-> snapshot.state]

\* PRIMARY KEY (aggregate_id, aggregate_version) of table snapshots.
SnapshotKeyTaken(rows, row) ==
    \E r \in rows : /\ r.aggregate_id = row.aggregate_id
                     /\ r.aggregate_version = row.aggregate_version

NoSnapshot == [found |-> FALSE, id |-> None, version |-> 0, state |-> ZeroState]

\* Mutant: aggregate_version >= $2.
findLatestSnapshot_Inclusive(id, version) ==
    LET rows == {r \in snapshots :
                   r.aggregate_id = id /\ r.aggregate_version >= version}
    IN  IF rows = {} THEN NoSnapshot
        ELSE LET row == CHOOSE r \in rows :
                           \A q \in rows : q.aggregate_version <= r.aggregate_version
             IN  [found |-> TRUE, id |-> row.aggregate_id,
                  version |-> row.aggregate_version, state |-> row.state]

\* SELECT * FROM snapshots WHERE aggregate_id = $1 AND aggregate_version > $2
\* ORDER BY aggregate_version DESC LIMIT 1; null without a row.
findLatestSnapshot(id, version) ==
    LET rows == {r \in snapshots :
                   r.aggregate_id = id /\ r.aggregate_version > version}
    IN  IF rows = {} THEN NoSnapshot
        ELSE LET row == CHOOSE r \in rows :
                           \A q \in rows : q.aggregate_version <= r.aggregate_version
             IN  [found |-> TRUE, id |-> row.aggregate_id,
                  version |-> row.aggregate_version, state |-> row.state]

\* reload() step 2: a snapshot replaces state and version.
Restored(a, snapshot) ==
    IF snapshot.found
    THEN [a EXCEPT !.state = snapshot.state, !.version = snapshot.version]
    ELSE a

\* reload(), run alone: the latest snapshot after the current version, then
\* the events after it.
reload(a) ==
    LET base == Restored(a, findLatestSnapshot(AggId, a.version))
    IN  Replay(base, listEvents(AggId, base.version))

\* Mutant: a snapshot is taken after every batch.
ShouldTakeSnapshot_Always(version) == TRUE

\* Step 9: snapshotInterval > 0 and version % snapshotInterval == 0.
ShouldTakeSnapshot(version) ==
    SnapshotInterval > 0 /\ version % SnapshotInterval = 0

\* reload(): the latest snapshot, then the events after it.
Reload ==
    /\ agg.pc = "reload"
    /\ LET a == reload(agg)
       IN  agg' = [a EXCEPT !.pc = AfterReload(agg),
                            !.reloaded = [version |-> a.version, state |-> a.state,
                                          saves |-> Len(saveLog),
                                          sends |-> Len(main)]]
    /\ UNCHANGED <<aggregates, events, txVars, restVars, main, saveLog, results,
                   snapshotVars>>

\* Steps 2-5: run the command handler on the current state.
Handle ==
    /\ agg.pc = "handle"
    /\ LET r == UpdateBalanceCommandHandler(agg.state, agg.amount) IN
       IF ~HasCommandHandler(agg.type)
       THEN /\ agg' = [agg EXCEPT !.pc = "rejected", !.error = CommandHandlerMissing]
            /\ results' = Append(results, CommandHandlerMissing)
       ELSE IF r.throws
       THEN /\ agg' = [HandlerThrew(agg, r.error) EXCEPT !.threw = TRUE]
            /\ results' = IF HandlerThrew(agg, r.error).pc = "rejected"
                          THEN Append(results, r.error) ELSE results
       ELSE /\ agg' = [agg EXCEPT !.pc = "save", !.batch = Produced(agg, <<r.event>>)]
            /\ UNCHANGED results
    /\ UNCHANGED <<aggregates, events, txVars, restVars, main, saveLog,
                   snapshotVars>>

\* Steps 6-7: store.saveEvents at version + 1; fold on success, reload and
\* retry on a version conflict while attempts remain, reject otherwise.
Save ==
    /\ agg.pc = "save"
    /\ LET version == agg.version + 1
           res == SaveEventsResult(AggId, version, agg.batch)
           tables == SaveEventsTables(AggId, version, agg.batch)
       IN  /\ saveLog' = Append(saveLog, [version |-> version, res |-> res])
           /\ aggregates' = tables.aggregates
           /\ events' = tables.events
           /\ IF SaveSucceeded(res)
              THEN /\ agg' = [Folded(agg, agg.batch) EXCEPT !.pc = "send"]
                   /\ UNCHANGED results
              ELSE IF res = AggregateVersionConflictError /\ MayRetry(agg.attempt)
              THEN /\ agg' = [agg EXCEPT !.pc = "reload", !.attempt = @ + 1]
                   /\ UNCHANGED results
              ELSE /\ agg' = [agg EXCEPT !.pc = "rejected", !.error = res]
                   /\ results' = Append(results, res)
    /\ UNCHANGED <<txVars, restVars, main, snapshotVars>>

\* Steps 8-9: stream.sendEvents([{stream: 'main', events}]); by the snapshot
\* policy store.saveSnapshot is called (not awaited); process() resolves.
Send ==
    /\ agg.pc = "send"
    /\ main' = Append(main, agg.batch)
    /\ agg' = [agg EXCEPT !.pc = "resolved"]
    /\ results' = Append(results, "ok")
    /\ LET snapshot == [aggregate |-> [id |-> AggId, version |-> agg.version],
                        state |-> agg.state]
       IN  IF ShouldTakeSnapshot(agg.version)
           THEN /\ snapshotQueue' = Append(snapshotQueue, snapshot)
                /\ snapshotCalls' = Append(snapshotCalls, snapshot)
           ELSE UNCHANGED <<snapshotQueue, snapshotCalls>>
    /\ UNCHANGED <<aggregates, events, txVars, restVars, saveLog, snapshots>>

\* Mutant: INSERT ... ON CONFLICT (aggregate_id, aggregate_version) DO UPDATE
\* SET state: the row of the key is replaced.
SnapshotInsert_Upsert(rows, row) ==
    [rows |-> {r \in rows : ~(/\ r.aggregate_id = row.aggregate_id
                              /\ r.aggregate_version = row.aggregate_version)}
              \cup {row},
     res |-> "ok"]

\* The INSERT INTO snapshots adds the row, or fails on the primary key with
\* a unique violation and adds nothing.
SnapshotInsert(rows, row) ==
    IF SnapshotKeyTaken(rows, row)
    THEN [rows |-> rows, res |-> UniqueViolation]
    ELSE [rows |-> rows \cup {row}, res |-> "ok"]

\* saveSnapshotQueue runs the next saveSnapshot; the promise of the call
\* resolves, or rejects with the error of the query.
SaveSnapshotRun ==
    /\ snapshotQueue # <<>>
    /\ LET row == InsertedSnapshot(Head(snapshotQueue))
           done == SnapshotInsert(snapshots, row)
       IN  /\ snapshots' = done.rows
           /\ snapshotLog' = Append(snapshotLog,
                                    [aggregate |-> Head(snapshotQueue).aggregate,
                                     state |-> Head(snapshotQueue).state,
                                     res |-> done.res])
    /\ snapshotQueue' = Tail(snapshotQueue)
    /\ UNCHANGED <<aggregates, events, txVars, projectionVars, pipelineVars,
                   reloadVars, lookup, listed, moreVars, agg, main, saveLog, results,
                   snapshotCalls>>

\* ------------------------------------------- the store adapter, called directly

\* Snapshot states a caller saves.
SnapshotStates == {[balance |-> 10], [balance |-> 20]}

NoFind == [calls |-> 0, id |-> None, version |-> 0, snapshot |-> NoSnapshot]
NoListing ==
    [calls |-> 0, id |-> None, version |-> 0, at |-> 0, again |-> FALSE,
     events |-> <<>>]

\* The saveSnapshot calls made so far, run or waiting in the queue.
SnapshotCallsMade == Len(snapshotLog) + Len(snapshotQueue)

\* A caller invokes saveSnapshot({aggregate: {id, version}, state}): the
\* write is added to saveSnapshotQueue.
SaveSnapshotCall(id, version, state) ==
    /\ SnapshotCallsMade < MaxSnapshotCalls
    /\ snapshotQueue' = Append(snapshotQueue,
                               [aggregate |-> [id |-> id, version |-> version],
                                state |-> state])
    /\ UNCHANGED <<aggregates, events, txVars, restVars, agg, main, saveLog,
                   results, snapshots, snapshotCalls>>

\* A caller invokes findLatestSnapshot({aggregate: {id, version}}).
FindLatestSnapshotCall(id, version) ==
    /\ lookup.calls < MaxReads
    /\ lookup' = [calls |-> lookup.calls + 1, id |-> id, version |-> version,
                 snapshot |-> findLatestSnapshot(id, version)]
    /\ UNCHANGED <<coreVarsButReload, projectionVars, pipelineVars, reloadVars,
                   snapshotLog, listed, moreVars>>

\* saveEvents of another aggregate committed one more event of its log
\* (its row of table aggregates is not part of the model).
OtherAggregateSave(id) ==
    LET version == Cardinality(EventsOf(id)) + 1
        event == [type |-> BalanceUpdated, body |-> [balance |-> 0, amount |-> 0]]
    IN  /\ id \notin Ids
        /\ version <= MaxOtherLog
        /\ events' = events \cup InsertedEvents(id, version, <<event>>)
        /\ UNCHANGED <<aggregates, txVars, engineVars, restVars>>

\* A caller invokes listEvents({aggregate: {id, version}}) and drains the
\* generator.
ListEventsCall(id, version) ==
    /\ listed.calls < MaxReads
    /\ listed' = [calls |-> listed.calls + 1, id |-> id, version |-> version,
                  at |-> Cardinality(events),
                  again |-> /\ listed.calls > 0
                            /\ listed.id = id /\ listed.version = version
                            /\ listed.at = Cardinality(events),
                  events |-> listEvents(id, version)]
    /\ UNCHANGED <<coreVarsButReload, projectionVars, pipelineVars, reloadVars,
                   snapshotLog, lookup, moreVars>>

\* Another writer of the same aggregate appends one event at the end of the
\* log, through the same saveEvents.
OtherSave(amount) ==
    LET tip == Replay(NewAggregate, listEvents(AggId, 0))
        r == UpdateBalanceCommandHandler(tip.state, amount)
    IN  /\ tip.version < MaxLog
        /\ ~r.throws
        /\ LET tables == SaveEventsTables(AggId, tip.version + 1, <<r.event>>)
           IN  /\ aggregates' = tables.aggregates
               /\ events' = tables.events
        /\ rl' = [c \in Callers |->
                    IF rl[c].pc \in {"idle", "done"} THEN rl[c]
                    ELSE [rl[c] EXCEPT !.clean = FALSE]]
        /\ reloaded' = FALSE
        /\ UNCHANGED <<txVars, engineVars, projectionVars, pipelineVars,
                       adapterVars, handlerKind, mutex>>

\* ------------------------------------------------- Concurrent reload()

IdleReload ==
    [pc |-> "idle", calls |-> 0, clean |-> FALSE, fresh |-> FALSE,
     overlapped |-> FALSE, from |-> 0, evs |-> <<>>]

\* No reload() is between its call and its return.
Quiet(c) == rl[c].pc \in {"idle", "done"}

\* Another Aggregate instance, with a snapshot policy of its own, saved the
\* snapshot of version v: the state it folded from events 1..v.
OtherSnapshot(v) ==
    /\ v \in 1 .. Len(listEvents(AggId, 0))
    /\ Cardinality(snapshots) < MaxSnapshots
    /\ LET a == Replay(NewAggregate, SubSeq(listEvents(AggId, 0), 1, v))
           row == InsertedSnapshot([aggregate |-> [id |-> AggId, version |-> a.version],
                                   state |-> a.state])
       IN  /\ ~SnapshotKeyTaken(snapshots, row)
           /\ snapshots' = snapshots \cup {row}
    /\ UNCHANGED <<aggregates, events, txVars, restVars, agg, main, saveLog,
                   results, snapshotQueue, snapshotCalls>>

\* A caller calls reload() on the Aggregate instance.
ReloadCall(c) ==
    /\ Quiet(c)
    /\ rl[c].calls < MaxReloads
    /\ rl' = [rl EXCEPT ![c] = [IdleReload EXCEPT
                  !.pc = "waiting", !.calls = rl[c].calls + 1, !.clean = TRUE,
                  !.overlapped = \E d \in Callers \ {c} : ~Quiet(d)]]
    /\ UNCHANGED <<coreVarsButReload, projectionVars, pipelineVars, adapterVars, handlerKind,
                   mutex, reloaded>>

\* Mutant: reload() starts at once, whoever else is reloading.
MayStart_NoMutex(c) == TRUE

\* Step 4: reload() is serialized per Aggregate instance.
MayStart(c) == mutex = None

ReloadAcquire(c) ==
    /\ rl[c].pc = "waiting"
    /\ MayStart(c)
    /\ mutex' = c
    /\ rl' = [rl EXCEPT ![c].pc = "snapshot"]
    /\ UNCHANGED <<coreVarsButReload, projectionVars, pipelineVars, adapterVars, handlerKind,
                   reloaded>>

\* Steps 1-2: store.findLatestSnapshot({aggregate: {id, version}}); a snapshot
\* replaces state and version.
ReloadFindSnapshot(c) ==
    /\ rl[c].pc = "snapshot"
    /\ LET snapshot == findLatestSnapshot(AggId, agg.version)
           a == Restored(agg, snapshot)
       IN  /\ agg' = a
           /\ rl' = [rl EXCEPT ![c].pc = "list", ![c].from = a.version,
                        ![c].fresh = (agg.version = 0 /\ agg.state = ZeroState)]
    /\ UNCHANGED <<aggregates, events, txVars, main, saveLog, results,
                   snapshotVars, projectionVars, pipelineVars, adapterVars, handlerKind,
                   mutex, reloaded>>

\* Step 1: store.listEvents({aggregate: {id, version: snapshot ?
\* snapshot.aggregate.version : version}}).
ReloadListEvents(c) ==
    /\ rl[c].pc = "list"
    /\ rl' = [rl EXCEPT ![c].pc = "fold",
                        ![c].evs = listEvents(AggId, rl[c].from)]
    /\ UNCHANGED <<coreVarsButReload, projectionVars, pipelineVars, adapterVars, handlerKind,
                   mutex, reloaded>>

\* Step 3: the next event of the listing goes through its event handler.
ReloadFoldEvent(c) ==
    /\ rl[c].pc = "fold"
    /\ rl[c].evs # <<>>
    /\ agg' = Digest(agg, Head(rl[c].evs))
    /\ rl' = [rl EXCEPT ![c].evs = Tail(rl[c].evs)]
    /\ UNCHANGED <<aggregates, events, txVars, main, saveLog, results,
                   snapshotVars, projectionVars, pipelineVars, adapterVars, handlerKind,
                   mutex, reloaded>>

\* reload() resolves.
ReloadReturn(c) ==
    /\ rl[c].pc = "fold"
    /\ rl[c].evs = <<>>
    /\ rl' = [rl EXCEPT ![c].pc = "done"]
    /\ mutex' = IF mutex = c THEN None ELSE mutex
    /\ reloaded' = (reloaded \/ rl[c].clean)
    /\ UNCHANGED <<coreVarsButReload, projectionVars, pipelineVars, adapterVars, handlerKind>>

\* ---------------------------------- Concurrent process() on one instance

\* A caller that has not called process().
IdleProcess ==
    [pc |-> "idle", amount |-> 0, attempt |-> 0, version |-> 0, batch |-> <<>>,
     res |-> None, reloads |-> 0]

\* Step 7: on success the produced events are folded into the instance as it
\* is when saveEvents resolves.
Settled(a, batch) == Folded(a, batch)

\* The process() call of a caller waits for the reload() it called.
StartReload(c) ==
    [rl EXCEPT ![c] = [IdleReload EXCEPT !.pc = "waiting", !.calls = rl[c].calls]]

\* A caller that holds the shared instance calls process({type: UpdateBalance,
\* args: [{amount}]}, meta, {noReload}). Step 1: reload() unless noReload.
ConcurrentProcess(c, amount, noReload) ==
    /\ procs[c].pc = "idle"
    /\ Quiet(c)
    /\ procs' = [procs EXCEPT ![c] =
                    [IdleProcess EXCEPT !.pc = IF noReload THEN "handle" ELSE "reload",
                                        !.amount = amount, !.attempt = 1,
                                        !.reloads = IF noReload THEN 0 ELSE 1]]
    /\ rl' = IF noReload THEN rl ELSE StartReload(c)
    /\ UNCHANGED <<coreVarsButReload, projectionVars, pipelineVars, handlerKind,
                   mutex, reloaded, snapshotLog, lookup, listed, factoryVars,
                   subscriberVars, serializationVars, starts>>

\* Steps 2-6: the command handler runs on the state of the instance, the
\* produced events get version + 1 + i, and store.saveEvents is called with
\* version + 1. A domain error rejects the call.
ConcurrentHandle(c) ==
    /\ \/ procs[c].pc = "handle"
       \/ procs[c].pc = "reload" /\ rl[c].pc = "done"
    /\ LET r == UpdateBalanceCommandHandler(agg.state, procs[c].amount) IN
       procs' = IF r.throws
                THEN [procs EXCEPT ![c].pc = "rejected", ![c].res = r.error]
                ELSE [procs EXCEPT ![c].pc = "save",
                                   ![c].version = agg.version + 1,
                                   ![c].batch = Produced(agg, <<r.event>>)]
    /\ UNCHANGED <<coreVarsButReload, projectionVars, pipelineVars, reloadVars,
                   snapshotLog, lookup, listed, factoryVars, subscriberVars,
                   serializationVars, starts>>

\* Step 6: the store runs the saveEvents transaction of the call.
ConcurrentSave(c) ==
    /\ procs[c].pc = "save"
    /\ LET res == SaveEventsResult(AggId, procs[c].version, procs[c].batch)
           tables == SaveEventsTables(AggId, procs[c].version, procs[c].batch)
       IN  /\ aggregates' = tables.aggregates
           /\ events' = tables.events
           /\ procs' = [procs EXCEPT ![c].pc = "settle", ![c].res = res]
    /\ UNCHANGED <<txVars, engineVars, projectionVars, pipelineVars, reloadVars,
                   snapshotLog, lookup, listed, factoryVars, subscriberVars,
                   serializationVars, starts>>

\* Steps 6-7: saveEvents settles. On success the produced events are folded;
\* on AggregateVersionConflict the call reloads and restarts at step 2 while
\* attempts remain; any other outcome rejects the call.
ConcurrentSettle(c) ==
    /\ procs[c].pc = "settle"
    /\ IF SaveSucceeded(procs[c].res)
       THEN /\ agg' = Settled(agg, procs[c].batch)
            /\ procs' = [procs EXCEPT ![c].pc = "send"]
            /\ UNCHANGED rl
       ELSE IF procs[c].res = AggregateVersionConflictError /\ MayRetry(procs[c].attempt)
       THEN /\ procs' = [procs EXCEPT ![c].pc = "reload", ![c].attempt = @ + 1,
                                      ![c].reloads = @ + 1]
            /\ rl' = StartReload(c)
            /\ UNCHANGED agg
       ELSE /\ procs' = [procs EXCEPT ![c].pc = "rejected"]
            /\ UNCHANGED <<agg, rl>>
    /\ UNCHANGED <<aggregates, events, txVars, main, saveLog, results, snapshotVars,
                   projectionVars, pipelineVars, handlerKind, mutex, reloaded,
                   snapshotLog, lookup, listed, factoryVars, subscriberVars,
                   serializationVars, starts>>

\* Step 8: stream.sendEvents([{stream: 'main', events}]); process() resolves.
ConcurrentSend(c) ==
    /\ procs[c].pc = "send"
    /\ main' = Append(main, procs[c].batch)
    /\ procs' = [procs EXCEPT ![c].pc = "resolved"]
    /\ UNCHANGED <<aggregates, events, txVars, agg, saveLog, results, snapshotVars,
                   projectionVars, pipelineVars, reloadVars, snapshotLog, lookup,
                   listed, factoryVars, subscriberVars, serializationVars, starts>>

\* -------------------------------------------------------- AggregateFactory

\* Callers of AggregateFactory.load, each making one call.
Loaders == {"l1", "l2", "l3"}
\* The error a failing store makes reload() throw.
StoreError == "StoreError"

IdleLoad ==
    [pc |-> "idle", id |-> None, noReload |-> FALSE, miss |-> FALSE,
     inst |-> 0, res |-> None, during |-> {}, version |-> 0]

\* Loads between their call and their return.
InFlight == {l \in Loaders : loaders[l].pc \notin {"idle", "done"}}

\* cache.get(_id): the instance number of the cached promise, 0 for none.
RECURSIVE CacheGet(_, _)
CacheGet(entries, id) ==
    IF entries = <<>> THEN 0
    ELSE IF Head(entries).id = id THEN Head(entries).inst
    ELSE CacheGet(Tail(entries), id)

\* cache.delete(_id)
RECURSIVE CacheDelete(_, _)
CacheDelete(entries, id) ==
    IF entries = <<>> THEN <<>>
    ELSE IF Head(entries).id = id THEN CacheDelete(Tail(entries), id)
    ELSE <<Head(entries)>> \o CacheDelete(Tail(entries), id)

\* A cache.get hit makes the entry the most recently used.
CacheTouch(entries, id) ==
    IF CacheGet(entries, id) = 0 THEN entries
    ELSE Append(CacheDelete(entries, id), [id |-> id, inst |-> CacheGet(entries, id)])

\* Mutant: the promise is not stored.
CacheSet_Forgets(entries, id, n) == entries

\* cache.set(_id, promise): the entry becomes the most recently used, and
\* the least recently used entries beyond `max` are evicted.
CacheSet(entries, id, n) ==
    LET put == Append(CacheDelete(entries, id), [id |-> id, inst |-> n])
    IN  IF Len(put) > CacheMax
        THEN SubSeq(put, Len(put) - CacheMax + 1, Len(put))
        ELSE put

\* The ids with an entry.
CachedIds(entries) == {entries[i].id : i \in 1 .. Len(entries)}

\* Mutant: the entry stays when the load failed.
AfterFailure_Keeps(entries, id) == entries

\* .catch(err => { this.cache.delete(_id); throw err; })
AfterFailure(entries, id) == CacheDelete(entries, id)

\* new Aggregate(store, stream, ..., id, 0, state, opts)
Constructed(id) == [id |-> id, promise |-> "pending", version |-> 0, reloads |-> 0]

\* aggregate.reload() resolved: the Aggregate is at the tip of its log.
Reloaded(a) ==
    [a EXCEPT !.version = Cardinality(EventsOf(a.id)), !.reloads = a.reloads + 1]

\* The failures of the store so far.
Failures == Cardinality({l \in Loaders : loaders[l].res = StoreError})

\* load(id, opts) up to its first await: cache.get; on a miss the Aggregate
\* is constructed, its reload started and the promise stored.
LoadCall(l, id, noReload) ==
    LET n == CacheGet(lru, id)
        started == [IdleLoad EXCEPT !.id = id, !.noReload = noReload,
                                 !.during = InFlight]
    IN  /\ loaders[l].pc = "idle"
        /\ IF n = 0
           THEN /\ instances' = Append(instances, Constructed(id))
                /\ lru' = CacheSet(lru, id, Len(instances) + 1)
                /\ removed' = removed \cup
                                (CachedIds(lru) \ CachedIds(lru'))
                /\ loaders' = [loaders EXCEPT ![l] =
                                 [started EXCEPT !.pc = "construct", !.miss = TRUE,
                                              !.inst = Len(instances) + 1]]
           ELSE /\ lru' = CacheTouch(lru, id)
                /\ loaders' = [loaders EXCEPT ![l] =
                                 [started EXCEPT !.pc = "await", !.inst = n]]
                /\ UNCHANGED <<instances, removed>>
        /\ UNCHANGED <<coreVarsButReload, projectionVars, pipelineVars,
                       reloadVars, snapshotLog, lookup, listed,
                   subscriberVars, serializationVars, lateVars>>

\* The promise of the constructing call settles: the reload (skipped with
\* noReload) resolved, or threw, and then the entry of the id is deleted.
LoadConstructed(l, fails) ==
    LET c == loaders[l] IN
    /\ c.pc = "construct"
    /\ fails => (~c.noReload /\ Failures < MaxFailures)
    /\ IF fails
       THEN /\ instances' = [instances EXCEPT ![c.inst].promise = "rejected"]
            /\ lru' = AfterFailure(lru, c.id)
            /\ removed' = removed \cup {c.id}
            /\ loaders' = [loaders EXCEPT ![l].pc = "done", ![l].res = StoreError]
       ELSE /\ instances' = [instances EXCEPT ![c.inst] =
                                [(IF c.noReload THEN @ ELSE Reloaded(@))
                                    EXCEPT !.promise = "resolved"]]
            /\ loaders' = [loaders EXCEPT ![l].pc = "done", ![l].res = "ok",
                                          ![l].version = instances'[c.inst].version]
            /\ UNCHANGED <<lru, removed>>
    /\ UNCHANGED <<coreVarsButReload, projectionVars, pipelineVars,
                   reloadVars, snapshotLog, lookup, listed,
                   subscriberVars, serializationVars, lateVars>>

\* const aggregate = await promise, for a call that found the promise cached.
LoadAwaited(l) ==
    LET c == loaders[l] IN
    /\ c.pc = "await"
    /\ instances[c.inst].promise # "pending"
    /\ loaders' = [loaders EXCEPT ![l] =
          IF instances[c.inst].promise = "rejected"
          THEN [c EXCEPT !.pc = "done", !.res = StoreError]
          ELSE IF c.noReload
               THEN [c EXCEPT !.pc = "done", !.res = "ok",
                              !.version = instances[c.inst].version]
               ELSE [c EXCEPT !.pc = "reload"]]
    /\ UNCHANGED <<coreVarsButReload, projectionVars, pipelineVars,
                   reloadVars, snapshotLog, lookup, listed,
                   subscriberVars, serializationVars, lateVars, lru, instances,
                   removed>>

\* await aggregate.reload() of the cached Aggregate resolved, or threw, and
\* then the entry of the id is deleted.
LoadReloaded(l, fails) ==
    LET c == loaders[l] IN
    /\ c.pc = "reload"
    /\ fails => Failures < MaxFailures
    /\ IF fails
       THEN /\ lru' = AfterFailure(lru, c.id)
            /\ removed' = removed \cup {c.id}
            /\ loaders' = [loaders EXCEPT ![l].pc = "done", ![l].res = StoreError]
            /\ UNCHANGED instances
       ELSE /\ instances' = [instances EXCEPT ![c.inst] = Reloaded(@)]
            /\ loaders' = [loaders EXCEPT ![l].pc = "done", ![l].res = "ok",
                                          ![l].version = instances'[c.inst].version]
            /\ UNCHANGED <<lru, removed>>
    /\ UNCHANGED <<coreVarsButReload, projectionVars, pipelineVars,
                   reloadVars, snapshotLog, lookup, listed,
                   subscriberVars, serializationVars, lateVars>>

\* The entry of id is older than cacheTTL: the cache drops it.
FactoryCacheExpire(id) ==
    /\ id \in CachedIds(lru)
    /\ lru' = CacheDelete(lru, id)
    /\ removed' = removed \cup {id}
    /\ UNCHANGED <<coreVarsButReload, projectionVars, pipelineVars,
                   reloadVars, snapshotLog, lookup, listed,
                   subscriberVars, serializationVars, lateVars, instances, loaders>>

\* ------------------------------------------------ Subscriber (eachMessage)

\* Errors a handler throws; opts.retry.retry, when given, returns false for
\* the last and true for the others.
HandlerErrors == {"transient", "timeout", "fatal"}
RetryPredicate(err) == err # "fatal"

IdleSubscriber ==
    [pc |-> "idle", event |-> 0, given |-> FALSE, attemptNumber |-> 0,
     invoked |-> <<>>, error |-> None, messages |-> 0]

\* Mutant: opts.retry.retry is not consulted.
ShouldRetry_Always(given, err) == TRUE

\* retry: async (err) => opts?.retry?.retry ? opts.retry.retry(err) : true
ShouldRetry(given, err) == IF given THEN RetryPredicate(err) ELSE TRUE

\* backOff: attemptNumber >= numOfAttempts
AttemptLimitReached(attemptNumber) == attemptNumber >= NumOfAttempts

\* eachMessage({message}) is called with the next message of the partition;
\* the subscription was made with or without opts.retry.retry.
SubscriberReceive(given) ==
    /\ sub.pc \in {"idle", "resolved", "rejected"}
    /\ sub.messages < MaxMessages
    /\ sub' = [IdleSubscriber EXCEPT !.pc = "attempt", !.given = given,
                                     !.event = sub.messages + 1,
                                     !.messages = sub.messages + 1]
    /\ UNCHANGED <<coreVarsButReload, projectionVars, pipelineVars, reloadVars,
                   snapshotLog, lookup, listed, factoryVars,
                   serializationVars, lateVars>>

\* await handle(event) resolves: backOff returns, eachMessage resolves.
SubscriberHandleOk ==
    /\ sub.pc = "attempt"
    /\ sub' = [sub EXCEPT !.pc = "resolved",
                          !.invoked = Append(@, [event |-> sub.event, res |-> "ok"])]
    /\ UNCHANGED <<coreVarsButReload, projectionVars, pipelineVars, reloadVars,
                   snapshotLog, lookup, listed, factoryVars,
                   serializationVars, lateVars>>

\* await handle(event) throws err: backOff counts the attempt, asks retry
\* and throws err when it answers false or the attempts are used up.
SubscriberHandleThrows(err) ==
    /\ sub.pc = "attempt"
    /\ LET attemptNumber == sub.attemptNumber + 1
           shouldRetry == ShouldRetry(sub.given, err)
       IN  sub' = [sub EXCEPT
                     !.attemptNumber = attemptNumber,
                     !.invoked = Append(@, [event |-> sub.event, res |-> err]),
                     !.pc = IF ~shouldRetry \/ AttemptLimitReached(attemptNumber)
                            THEN "rejected" ELSE "attempt",
                     !.error = IF ~shouldRetry \/ AttemptLimitReached(attemptNumber)
                               THEN err ELSE None]
    /\ UNCHANGED <<coreVarsButReload, projectionVars, pipelineVars, reloadVars,
                   snapshotLog, lookup, listed, factoryVars,
                   serializationVars, lateVars>>

\* ------------------------------------------------- Kafka wire serialization

\* Values of a body or a meta: null, numbers, strings, Buffers, Dates.  A
\* value is [k |-> kind, v |-> payload]; an object is a function from its
\* keys to values.
JNull == [k |-> "null", v |-> <<>>]
Num(n) == [k |-> "number", v |-> <<n>>]
Str(codes) == [k |-> "string", v |-> codes]
Buf(bytes) == [k |-> "Buffer", v |-> bytes]
Dat(ms) == [k |-> "Date", v |-> <<ms>>]

\* joser.serialize of a value: a Buffer or a Date becomes a tagged object,
\* the other values stay.
JoserSerializeValue(x) ==
    IF x.k \in {"Buffer", "Date"}
    THEN [k |-> "tagged", v |-> <<[type |-> x.k, payload |-> x.v]>>]
    ELSE x

\* joser.deserialize of a value: a tagged object becomes the Buffer or Date.
JoserDeserializeValue(x) ==
    IF x.k = "tagged" THEN [k |-> x.v[1].type, v |-> x.v[1].payload] ELSE x

\* joser.serialize(object), JSON.stringify, Buffer.from(text, 'utf8'): the
\* bytes of the JSON text of the object, key by key.
EncodeObject(obj) ==
    [json |-> [key \in DOMAIN obj |-> JoserSerializeValue(obj[key])]]

\* JSON.parse(bytes.toString('utf8')), joser.deserialize
DecodeObject(bytes) ==
    [key \in DOMAIN bytes.json |-> JoserDeserializeValue(bytes.json[key])]

\* A scalar field of the flatbuffers table: a value equal to the default 0
\* is not written, and an absent field reads as the default.
AddScalar(n) == [present |-> n # 0, v |-> IF n # 0 THEN n ELSE 0]
ReadScalar(field) == IF field.present THEN field.v ELSE 0

NoBody == [null |-> TRUE, raw |-> FALSE, bytes |-> <<>>, object |-> <<>>]

\* Mutant: Math.round(event.timestamp.getTime() / 1000)
ToSeconds_Rounds(ms) == (ms + 500) \div 1000

\* Math.floor(event.timestamp.getTime() / 1000)
ToSeconds(ms) == ms \div 1000

\* serialize(event, joser, raw): the flatbuffers table.  The body vector is
\* the raw Buffer, or the JSON of the body; it is added when event.body is
\* truthy.
serialize(event, raw) ==
    [id |-> event.id,
     type |-> AddScalar(event.type),
     aggregate_id |-> event.aggregate.id,
     aggregate_version |-> AddScalar(event.aggregate.version),
     body |-> IF event.body.null THEN [present |-> FALSE, bytes |-> <<>>]
              ELSE [present |-> TRUE,
                    bytes |-> IF raw THEN event.body.bytes
                              ELSE EncodeObject(event.body.object)],
     meta |-> EncodeObject(event.meta),
     timestamp |-> AddScalar(ToSeconds(event.timestamp))]

\* deserialize(data, joser, raw)
deserialize(data, raw) ==
    [id |-> data.id,
     type |-> ReadScalar(data.type),
     aggregate |-> [id |-> data.aggregate_id,
                    version |-> ReadScalar(data.aggregate_version)],
     body |-> IF ~data.body.present THEN NoBody
              ELSE IF raw
                   THEN [null |-> FALSE, raw |-> TRUE, bytes |-> data.body.bytes,
                         object |-> <<>>]
                   ELSE [null |-> FALSE, raw |-> FALSE, bytes |-> <<>>,
                         object |-> DecodeObject(data.body.bytes)],
     meta |-> DecodeObject(data.meta),
     timestamp |-> ReadScalar(data.timestamp) * 1000]

\* The events of a run: bodies as in the serialization test (an object, an
\* object with a Date and a Buffer, null) and a raw Buffer; meta with and
\* without __ctx; timestamps in milliseconds, whole seconds or not.
WireBodies ==
    {NoBody,
     [null |-> FALSE, raw |-> FALSE, bytes |-> <<>>,
      object |-> [message |-> Str(<<104, 105>>)]],
     [null |-> FALSE, raw |-> FALSE, bytes |-> <<>>,
      object |-> [number |-> Num(1), null |-> JNull, Date |-> Dat(1500),
                  Buffer |-> Buf(<<7, 8>>)]],
     [null |-> FALSE, raw |-> TRUE, bytes |-> <<9>>, object |-> <<>>]}
WireMetas == {<<>>, [__ctx |-> Buf(<<3>>)]}
WireTimestamps == {0, 1000, 1001, 1500, 1999, 2000}
WireEvents ==
    [id : {<<1>>, <<2>>}, type : {0, 7},
     aggregate : [id : {<<10>>}, version : {0, 1, 2}],
     body : WireBodies, meta : WireMetas, timestamp : WireTimestamps]

NoWire == [pc |-> "idle", raw |-> FALSE, input |-> <<>>, data |-> <<>>, output |-> <<>>]

\* The producer serializes an event.
Serialize(event) ==
    /\ wire.pc \in {"idle", "received"}
    /\ wire' = [pc |-> "sent", raw |-> event.body.raw, input |-> event,
                data |-> serialize(event, event.body.raw), output |-> <<>>]
    /\ UNCHANGED <<coreVarsButReload, projectionVars, pipelineVars, reloadVars,
                   snapshotLog, lookup, listed, factoryVars, subscriberVars, lateVars>>

\* The subscriber deserializes message.value.
Deserialize ==
    /\ wire.pc = "sent"
    /\ wire' = [wire EXCEPT !.pc = "received",
                            !.output = deserialize(wire.data, wire.raw)]
    /\ UNCHANGED <<coreVarsButReload, projectionVars, pipelineVars, reloadVars,
                   snapshotLog, lookup, listed, factoryVars, subscriberVars, lateVars>>

\* -------------------------------------------------------------- Projection

\* The id of the projection (the `projection` column of its checkpoints).
ProjectionId == "p"
\* Instances of the projection, subscribed to the same stream.
Instances == {"i1", "i2"}
\* Aggregates whose events reach the projection.
AggregateIds == {"a", "b"}
\* Event types on the stream; the projection has a handler for HandledTypes.
EventTypes == {"T1", "T2"}
HandledTypes == {"T1"}

\* The row of (projection, aggregate_id) if there is one (primary key).
CheckpointRows(projection, id) ==
    {r \in projection_checkpoints :
        r.projection = projection /\ r.aggregate_id = id}

\* Mutant: only a checkpoint past the version covers it.
checkProjectionCheckpoint_Strict(projection, id, version) ==
    ~\E r \in CheckpointRows(projection, id) : r.aggregate_version > version

\* Mutant: a checkpoint of any aggregate of the projection covers the version.
checkProjectionCheckpoint_AnyAggregate(projection, id, version) ==
    ~\E r \in projection_checkpoints :
        r.projection = projection /\ r.aggregate_version >= version

\* SELECT 1 FROM projection_checkpoints WHERE projection = $1 AND
\* aggregate_id = $2 AND aggregate_version >= $3 LIMIT 1; rowCount === 0.
checkProjectionCheckpoint(projection, id, version) ==
    ~\E r \in projection_checkpoints :
        /\ r.projection = projection
        /\ r.aggregate_id = id
        /\ r.aggregate_version >= version

\* INSERT ... ON CONFLICT (projection, aggregate_id) DO UPDATE SET
\* aggregate_version = $3: the version is written whatever the row held.
saveProjectionCheckpoint(projection, id, version) ==
    (projection_checkpoints \ CheckpointRows(projection, id))
        \cup {[projection |-> projection, aggregate_id |-> id,
                aggregate_version |-> version]}

\* failed: the events whose handler threw on this instance and has not
\* completed on it since.
IdleInstance ==
    [pc |-> "idle", id |-> "a", version |-> 1, type |-> "T1", covered |-> FALSE,
     failed |-> {}]

NoDeliveries == [count |-> 0, overlapped |-> FALSE, ascending |-> TRUE]

\* The subscriber calls handleEvent(event) on instance i: an event of the
\* stream for the first time, or one delivered before. Without a handler for
\* the type handleEvent returns at once.
Delivered(i, id, version, type) ==
    /\ inst[i].pc = "idle"
    /\ deliveries.count < MaxDeliveries
    /\ arrived[<<id, version>>] \in {None, type}
    /\ arrived' = [arrived EXCEPT ![<<id, version>>] = type]
    /\ deliveries' =
          [count |-> deliveries.count + 1,
           overlapped |-> deliveries.overlapped
                            \/ \E j \in Instances : inst[j].pc # "idle",
           ascending |-> deliveries.ascending
                           /\ (arrived[<<id, version>>] = None =>
                                 \A v \in 1 .. MaxEventVersion :
                                    arrived[<<id, v>>] # None <=> v < version)]
    /\ inst' = [inst EXCEPT ![i] =
                  [pc |-> IF type \in HandledTypes THEN "check" ELSE "idle",
                   id |-> id, version |-> version, type |-> type,
                   covered |-> FALSE, failed |-> inst[i].failed]]
    /\ UNCHANGED <<projection_checkpoints, handledLog, skipped, coreVars>>

\* A delivery from outside the model of the stream.
Deliver(i, id, version, type) ==
    /\ Delivered(i, id, version, type)
    /\ UNCHANGED pipelineVars

\* shouldProcess = await store.checkProjectionCheckpoint(...); a duplicate
\* is skipped.
Check(i) ==
    /\ inst[i].pc = "check"
    /\ LET should == checkProjectionCheckpoint(ProjectionId, inst[i].id,
                                                inst[i].version)
       IN  /\ inst' = [inst EXCEPT ![i].pc = IF should THEN "handle" ELSE "idle",
                                    ![i].covered = ~should]
           /\ skipped' = IF should THEN skipped ELSE skipped + 1
    /\ UNCHANGED <<projection_checkpoints, arrived, handledLog, deliveries,
                   coreVars, pipelineVars>>

\* await handle({state}, event) resolves.
HandleOk(i) ==
    /\ inst[i].pc = "handle"
    /\ handledLog' = Append(handledLog, [id |-> inst[i].id,
                                         version |-> inst[i].version])
    /\ inst' = [inst EXCEPT ![i].pc = "save",
                            ![i].failed = @ \ {<<inst[i].id, inst[i].version>>}]
    /\ UNCHANGED <<projection_checkpoints, arrived, deliveries, skipped,
                   coreVars, pipelineVars>>

\* await handle({state}, event) throws: handleEvent rethrows, no checkpoint.
HandleThrows(i) ==
    /\ inst[i].pc = "handle"
    /\ inst' = [inst EXCEPT ![i].pc = "threw",
                            ![i].failed = @ \cup {<<inst[i].id, inst[i].version>>}]
    /\ UNCHANGED <<projection_checkpoints, arrived, handledLog, deliveries,
                   skipped, coreVars, pipelineVars>>

\* The subscriber's backOff calls handleEvent again with the same event.
Retry(i) ==
    /\ inst[i].pc = "threw"
    /\ inst' = [inst EXCEPT ![i].pc = "check"]
    /\ UNCHANGED <<projection_checkpoints, arrived, handledLog, deliveries,
                   skipped, coreVars, pipelineVars>>

\* await store.saveProjectionCheckpoint(...); handleEvent returns.
SaveCheckpoint(i) ==
    /\ inst[i].pc = "save"
    /\ projection_checkpoints' =
          saveProjectionCheckpoint(ProjectionId, inst[i].id, inst[i].version)
    /\ inst' = [inst EXCEPT ![i].pc = "idle"]
    /\ UNCHANGED <<arrived, handledLog, deliveries, skipped, coreVars, pipelineVars>>

\* ------------------------------------------ stream, config adapter, Broker

\* Streams that can be registered: the projection's and one other.
StreamIds == {ProjectionId, "q"}
\* Topics `<prefix>.<stream>`: the ingress stream and the registered streams.
Topics == {"main"} \cup StreamIds
Partitions == 0 .. NumPartitions - 1

\* meta.__ctx values of the events: absent, or a buffer (its bytes).
NoCtx == <<>>
Ctxs == {NoCtx, <<1>>, <<3>>}

\* headers.__ctx: event.meta.__ctx ?? Buffer.from([0])
CtxHeader(ctx) == IF ctx = NoCtx THEN <<0>> ELSE ctx

\* murmurHash (MurmurHash3, 32 bit, seed 0) of the bytes, modulo 6: the
\* hashes of [0], [1], [3] are 1364076727, 3831157163, 1579843702. The
\* residue modulo 6 decides the partition for 1, 2, 3 and 6 partitions.
murmurHash(bytes) ==
    CASE bytes = <<0>> -> 1
      [] bytes = <<1>> -> 5
      [] bytes = <<3>> -> 4

\* Mutant: the partition is chosen by the aggregate id.
PartitionOf_ByAggregate(event) == 0

\* Mutant: the partition is chosen by the event's version, not by __ctx.
PartitionOf_ByVersion(event) == event.version % NumPartitions

\* createPartitioner: murmurHash(__ctx) % partitionMetadata.length
PartitionOf(event) == murmurHash(CtxHeader(event.ctx)) % NumPartitions

\* Mutant: the event is put on every registered stream's topic.
sendEvents_EveryStream(tps, streams, event) ==
    [t \in Topics |->
        IF t \in streams \/ (streams # {"main"} /\ t \in StreamIds)
        THEN [tps[t] EXCEPT ![0] = Append(@, event)]
        ELSE tps[t]]

\* producer.sendBatch: one message per event, appended to its partition of
\* the topic of each stream named.
sendEvents(tps, streams, event) ==
    [t \in Topics |->
        IF t \in streams
        THEN [tps[t] EXCEPT ![PartitionOf(event)] = Append(@, event)]
        ELSE tps[t]]

\* SELECT id FROM streams WHERE $1 = ANY(events)
StreamsOf(reg, type) == {st \in StreamIds : type \in reg[st]}

\* An absent (or expired) entry of the cache.
Miss == [hit |-> FALSE, streams |-> {}]

\* Mutant: an empty result is not cached.
CacheHit_NotEmpty(type) == cache[type].hit /\ cache[type].streams # {}

\* streams = this.cache.get(event); if (streams) return streams;
\* any array, the empty one too, is truthy.
CacheHit(type) == cache[type].hit

\* Mutant: every lookup queries the table; the cache is never read.
findStreams_NoCache(type) == StreamsOf(registry, type)

\* ConfigAdapter.findStreams(type): the cached list on a hit, else the
\* result of the query.
findStreams(type) ==
    IF CacheHit(type) THEN cache[type].streams ELSE StreamsOf(registry, type)

\* The aggregates that publish to `main`.
Publishers == {AggId}

IdleBroker ==
    [pc |-> "idle", event |-> [id |-> "a", version |-> 1, type |-> "T1",
                                ctx |-> NoCtx],
     streams |-> {}, registered |-> {}, known |-> {}, failures |-> 0]

\* An aggregate publishes its next event to the ingress stream `main`.
SendToMain(id, type, ctx) ==
    /\ published[id] < MaxEventVersion
    /\ LET event == [id |-> id, version |-> published[id] + 1, type |-> type,
                     ctx |-> ctx]
       IN  topics' = sendEvents(topics, {"main"}, event)
    /\ published' = [published EXCEPT ![id] = @ + 1]
    /\ UNCHANGED <<registry, cache, filled, broker, routed, projectionVars,
                   coreVars>>

\* ConfigAdapter.saveStream({id, events}): INSERT ... ON CONFLICT (id) DO
\* UPDATE SET events = $2. Projection.start registers its handler types.
SaveStream(st, types) ==
    /\ st = ProjectionId => types = HandledTypes
    /\ registry[st] # types
    /\ registry' = [registry EXCEPT ![st] = types]
    /\ UNCHANGED <<topics, cache, filled, broker, routed, published,
                   projectionVars, coreVars>>

\* The cache entry of a type reaches its TTL or is evicted.
CacheExpire(type) ==
    /\ cache[type].hit
    /\ cache' = [cache EXCEPT ![type] = Miss]
    /\ UNCHANGED <<topics, registry, filled, broker, routed, published,
                   projectionVars, coreVars>>

\* The Broker's subscriber takes the next message of a partition of `main`.
BrokerReceive(k) ==
    /\ broker.pc = "idle"
    /\ topics["main"][k] # <<>>
    /\ broker' = [IdleBroker EXCEPT !.pc = "find",
                                    !.event = Head(topics["main"][k])]
    /\ topics' = [topics EXCEPT !["main"][k] = Tail(@)]
    /\ UNCHANGED <<registry, cache, filled, routed, published, projectionVars,
                   coreVars>>

\* streams = await config.findStreams(event.type); with none the event is
\* dropped.
BrokerFindStreams ==
    /\ broker.pc = "find"
    /\ LET type == broker.event.type
           streams == findStreams(type)
           found == [broker EXCEPT !.streams = streams,
                                   !.registered = StreamsOf(registry, type),
                                   !.known = StreamsOf(filled'[type], type)]
       IN  /\ cache' = [cache EXCEPT ![type] = [hit |-> TRUE, streams |-> streams]]
           /\ filled' = IF CacheHit(type) THEN filled
                         ELSE [filled EXCEPT ![type] = registry]
           /\ IF streams = {}
              THEN /\ broker' = [found EXCEPT !.pc = "idle"]
                   /\ routed' = Append(routed, [event |-> found.event,
                                                 streams |-> {},
                                                 registered |-> found.registered,
                                                 known |-> found.known])
              ELSE /\ broker' = [found EXCEPT !.pc = "send"]
                   /\ UNCHANGED routed
    /\ UNCHANGED <<topics, registry, published, projectionVars, coreVars>>

\* await stream.sendEvents(streams.map(stream => ({stream, events: [event]})))
BrokerSend ==
    /\ broker.pc = "send"
    /\ topics' = sendEvents(topics, broker.streams, broker.event)
    /\ routed' = Append(routed, [event |-> broker.event,
                                  streams |-> broker.streams,
                                  registered |-> broker.registered,
                                  known |-> broker.known])
    /\ broker' = [broker EXCEPT !.pc = "idle"]
    /\ UNCHANGED <<registry, cache, filled, published, projectionVars, coreVars>>

\* Mutant: the subscriber gives the event up when its handler throws.
AfterSendFailure_Drops(b) == [b EXCEPT !.pc = "idle"]

\* The handler rethrows what sendEvents threw; backOff calls handle(event)
\* again, which starts with findStreams. When backOff gives up, eachMessage
\* throws, the offset is not committed and the message is fetched again.
AfterSendFailure(b) == [b EXCEPT !.pc = "find", !.failures = @ + 1]

\* producer.sendBatch rejects. The batch spans several topics and is not
\* atomic: the messages of the topics in `written` were appended before the
\* error.
BrokerSendFails(written) ==
    /\ broker.pc = "send"
    /\ broker.failures < MaxSendFailures
    /\ written \subseteq broker.streams
    /\ topics' = sendEvents(topics, written, broker.event)
    /\ broker' = AfterSendFailure(broker)
    /\ UNCHANGED <<registry, cache, filled, routed, published, projectionVars,
                   coreVars>>

\* The partitions of the projection's topic an instance consumes: the group
\* spreads the partitions over its members.
Assigned(i) ==
    {k \in Partitions : k % 2 = (IF i = "i1" THEN 0 ELSE 1)}

\* The subscriber of instance i takes the next message of one of its
\* partitions and calls handleEvent.
Consume(i, k) ==
    /\ k \in Assigned(i)
    /\ topics[ProjectionId][k] # <<>>
    /\ LET event == Head(topics[ProjectionId][k])
       IN  Delivered(i, event.id, event.version, event.type)
    /\ topics' = [topics EXCEPT ![ProjectionId][k] = Tail(@)]
    /\ UNCHANGED <<registry, cache, filled, broker, routed, published>>

\* ------------------------------------------------------- Projection.start

\* The callers of start() and stop() on one Projection object.
Starters == {"s1", "s2"}

\* The eventHandlers array given to the constructor; two handlers may name
\* the same type.
EventHandlerTypes == <<"T1", "T1">>

\* [...new Set([...this.eventHandlers.values()].map(item => item.type))]
DistinctTypes(types) == {types[n] : n \in 1 .. Len(types)}

AlreadyStarted == "already started"

IdleStart == [pc |-> "idle", res |-> None, registered |-> FALSE,
              overlapped |-> FALSE]

\* The object before its constructor ran: opts is not chosen yet.
NotStarted ==
    [opts |-> "unset", subscriber |-> None, live |-> {}, call |-> [c \in Starters |-> IdleStart],
     calls |-> 0, saveStreams |-> 0, handled |-> 0, early |-> FALSE]

\* Other start() calls that have begun and not yet returned.
InProgress(c) ==
    {d \in Starters \ {c} : starts.call[d].pc \in {"saving", "subscribing", "assign"}}

\* Mutant: start() never registers the stream.
AfterGuard_NeverSaves(opts) == "subscribing"

\* if (!this.opts?.disableSaveStream) { await this.config.saveStream(...) }
AfterGuard(opts) == IF opts = "disableSaveStream" THEN "subscribing" ELSE "saving"

\* new Projection(store, stream, config, eventHandlers, id, state, opts)
ProjectionConstruct(opts) ==
    /\ starts.opts = "unset"
    /\ starts' = [starts EXCEPT !.opts = opts]
    /\ UNCHANGED <<coreVarsButReload, projectionVars, pipelineVars, reloadVars,
                   snapshotLog, lookup, listed, factoryVars, subscriberVars,
                   serializationVars, procs>>

\* start(): if (this.subscriber) throw new Error('already started'), then
\* the saveStream branch.
StartCall(c) ==
    /\ starts.opts # "unset"
    /\ starts.call[c].pc \in {"idle", "done", "failed"}
    /\ starts.calls < MaxStarts
    /\ starts' =
          [starts EXCEPT
              !.calls = @ + 1,
              !.call[c] =
                 IF starts.subscriber # None
                 THEN [IdleStart EXCEPT !.pc = "failed", !.res = AlreadyStarted]
                 ELSE [IdleStart EXCEPT !.pc = AfterGuard(starts.opts),
                                        !.overlapped = InProgress(c) # {}]]
    /\ UNCHANGED <<coreVarsButReload, projectionVars, pipelineVars, reloadVars,
                   snapshotLog, lookup, listed, factoryVars, subscriberVars,
                   serializationVars, procs>>

\* await this.config.saveStream({id: this.id, events: eventTypes}) resolves.
StartSaveStream(c) ==
    /\ starts.call[c].pc = "saving"
    /\ registry' = [registry EXCEPT ![ProjectionId] = DistinctTypes(EventHandlerTypes)]
    /\ starts' = [starts EXCEPT !.saveStreams = @ + 1,
                                !.call[c].pc = "subscribing",
                                !.call[c].registered = TRUE]
    /\ UNCHANGED <<coreVarsButReload, projectionVars, reloadVars, topics, cache,
                   filled, broker, routed, published,
                   snapshotLog, lookup, listed, factoryVars, subscriberVars,
                   serializationVars, procs>>

\* saveStream rejects and start() with it.
StartSaveStreamFails(c) ==
    /\ starts.call[c].pc = "saving"
    /\ starts' = [starts EXCEPT !.call[c].pc = "failed", !.call[c].res = StoreError]
    /\ UNCHANGED <<coreVarsButReload, projectionVars, pipelineVars, reloadVars,
                   snapshotLog, lookup, listed, factoryVars, subscriberVars,
                   serializationVars, procs>>

\* this.stream.subscribe(this.id, handler): the consumer runs.
StartSubscribe(c) ==
    /\ starts.call[c].pc = "subscribing"
    /\ starts' = [starts EXCEPT !.live = @ \cup {c}, !.call[c].pc = "assign"]
    /\ UNCHANGED <<coreVarsButReload, projectionVars, pipelineVars, reloadVars,
                   snapshotLog, lookup, listed, factoryVars, subscriberVars,
                   serializationVars, procs>>

\* this.subscriber = <the subscriber subscribe resolved with>
StartAssign(c) ==
    /\ starts.call[c].pc = "assign"
    /\ starts' = [starts EXCEPT !.subscriber = c, !.call[c].pc = "done",
                                !.call[c].res = "ok"]
    /\ UNCHANGED <<coreVarsButReload, projectionVars, pipelineVars, reloadVars,
                   snapshotLog, lookup, listed, factoryVars, subscriberVars,
                   serializationVars, procs>>

\* stop(): if (this.subscriber) await this.subscriber.stop()
StopCall ==
    /\ starts.subscriber # None
    /\ starts.subscriber \in starts.live
    /\ starts' = [starts EXCEPT !.live = @ \ {starts.subscriber}]
    /\ UNCHANGED <<coreVarsButReload, projectionVars, pipelineVars, reloadVars,
                   snapshotLog, lookup, listed, factoryVars, subscriberVars,
                   serializationVars, procs>>

\* A live subscription passes an event to handleEvent.
StartedHandles ==
    /\ starts.live # {}
    /\ starts.handled < MaxStartHandled
    /\ starts' = [starts EXCEPT
                     !.handled = @ + 1,
                     !.early = @ \/ registry[ProjectionId]
                                       # DistinctTypes(EventHandlerTypes)]
    /\ UNCHANGED <<coreVarsButReload, projectionVars, pipelineVars, reloadVars,
                   snapshotLog, lookup, listed, factoryVars, subscriberVars,
                   serializationVars, procs>>

\* ---------------------------------------------------------- specification

InitState ==
    /\ aggregates = [id \in Ids |-> NoRow]
    /\ events = {}
    /\ lock = [id \in Ids |-> None]
    /\ call = [w \in Writers |-> IdleCall]
    /\ fin = IdleFin
    /\ saved = {}
    /\ finalized = {}
    /\ agg = NewAggregate
    /\ main = <<>>
    /\ saveLog = <<>>
    /\ results = <<>>
    /\ projection_checkpoints = {}
    /\ inst = [i \in Instances |-> IdleInstance]
    /\ arrived = [e \in AggregateIds \X (1 .. MaxEventVersion) |-> None]
    /\ handledLog = <<>>
    /\ deliveries = NoDeliveries
    /\ skipped = 0
    /\ topics = [t \in Topics |-> [k \in Partitions |-> <<>>]]
    /\ registry = [st \in StreamIds |-> {}]
    /\ cache = [type \in EventTypes |-> Miss]
    /\ filled = [type \in EventTypes |-> [st \in StreamIds |-> {}]]
    /\ broker = IdleBroker
    /\ routed = <<>>
    /\ published = [id \in AggregateIds |-> 0]
    /\ snapshots = {}
    /\ snapshotQueue = <<>>
    /\ snapshotCalls = <<>>
    /\ rl = [c \in Callers |-> IdleReload]
    /\ mutex = None
    /\ reloaded = FALSE
    /\ snapshotLog = <<>>
    /\ lookup = NoFind
    /\ listed = NoListing
    /\ lru = <<>>
    /\ instances = <<>>
    /\ loaders = [l \in Loaders |-> IdleLoad]
    /\ removed = {}
    /\ sub = IdleSubscriber
    /\ wire = NoWire
    /\ starts = NotStarted
    /\ procs = [c \in Callers |-> IdleProcess]

\* The Aggregate of the tests: BalanceUpdatedEventHandler.
Init == InitState /\ handlerKind = "assign"

\* An Aggregate constructed with either event handler.
InitAggregate == InitState /\ handlerKind \in HandlerKinds

Next ==
    \/ \E w \in Writers, id \in Ids, version \in 1 .. MaxVersion, n \in 1 .. MaxBatch :
          SaveEventsCall(w, id, version, n)
    \/ \E w \in Writers : SaveEventsBegin(w)
    \/ \E w \in Writers : SaveEventsWriteAggregate(w)
    \/ \E w \in Writers : SaveEventsInsertEvent(w)
    \/ \E w \in Writers, code \in ThrownCodes : SaveEventsError(w, code)
    \/ \E w \in Writers : SaveEventsCommit(w)
    \/ \E id \in Ids : FinalizeUpdateAggregate(id)
    \/ FinalizeUpdateEvents
    \/ FinalizeCommit

Spec == Init /\ [][Next]_vars

\* The aggregate engine over the store, with one other writer.
NextAggregate ==
    \/ \E amount \in Amounts : ProcessCall(amount)
    \/ Reload
    \/ Handle
    \/ Save
    \/ Send
    \/ SaveSnapshotRun
    \/ \E amount \in OtherAmounts : OtherSave(amount)

SpecAggregate == InitAggregate /\ [][NextAggregate]_vars

\* The aggregate engine given commands with and without a handler.
NextCommands ==
    \/ NextAggregate
    \/ \E type \in CommandTypes \ CommandHandlerTypes :
          ProcessCallUnregistered(type)

SpecCommands == Init /\ [][NextCommands]_vars

\* Instances of one projection handling the events delivered to them.
NextProjection ==
    \/ \E i \in Instances, id \in AggregateIds, version \in 1 .. MaxEventVersion,
          type \in EventTypes : Deliver(i, id, version, type)
    \/ \E i \in Instances : Check(i)
    \/ \E i \in Instances : HandleOk(i)
    \/ \E i \in Instances : HandleThrows(i)
    \/ \E i \in Instances : Retry(i)
    \/ \E i \in Instances : SaveCheckpoint(i)

SpecProjection == Init /\ [][NextProjection]_vars

\* The Broker routing the events of `main` while streams are registered.
NextBroker ==
    \/ \E id \in Publishers, type \in EventTypes, ctx \in Ctxs :
          SendToMain(id, type, ctx)
    \/ \E st \in StreamIds, types \in SUBSET EventTypes : SaveStream(st, types)
    \/ \E type \in EventTypes : CacheExpire(type)
    \/ \E k \in Partitions : BrokerReceive(k)
    \/ BrokerFindStreams
    \/ BrokerSend

SpecBroker == Init /\ [][NextBroker]_vars

\* The Broker with sendEvents calls that fail.
NextBrokerRetry ==
    \/ \E id \in Publishers, type \in EventTypes, ctx \in Ctxs :
          SendToMain(id, type, ctx)
    \/ \E st \in StreamIds, types \in SUBSET EventTypes : SaveStream(st, types)
    \/ \E type \in EventTypes : CacheExpire(type)
    \/ \E k \in Partitions : BrokerReceive(k)
    \/ BrokerFindStreams
    \/ BrokerSend
    \/ \E written \in SUBSET StreamIds : BrokerSendFails(written)

SpecBrokerRetry == Init /\ [][NextBrokerRetry]_vars

\* Events from the aggregates through `main` and the Broker to the
\* instances of the projection, which registers its stream when it starts.
NextPipeline ==
    \/ \E id \in Publishers, type \in EventTypes, ctx \in Ctxs :
          SendToMain(id, type, ctx)
    \/ SaveStream(ProjectionId, HandledTypes)
    \/ \E k \in Partitions : BrokerReceive(k)
    \/ BrokerFindStreams
    \/ BrokerSend
    \/ \E i \in Instances, k \in Partitions : Consume(i, k)
    \/ \E i \in Instances : Check(i)
    \/ \E i \in Instances : HandleOk(i)
    \/ \E i \in Instances : HandleThrows(i)
    \/ \E i \in Instances : Retry(i)
    \/ \E i \in Instances : SaveCheckpoint(i)

SpecPipeline == Init /\ [][NextPipeline]_vars

\* The continuations of an awaited call run once it settles; the other
\* writer may stop at any time.
NextReload ==
    \/ \E amount \in OtherAmounts : OtherSave(amount)
    \/ \E v \in 1 .. MaxLog : OtherSnapshot(v)
    \/ \E c \in Callers :
         \/ ReloadCall(c)
         \/ ReloadAcquire(c)
         \/ ReloadFindSnapshot(c)
         \/ ReloadListEvents(c)
         \/ ReloadFoldEvent(c)
         \/ ReloadReturn(c)

SpecReload == InitAggregate /\ [][NextReload]_vars

\* Two callers hold the instance AggregateFactory.load returned for one id
\* and call process() on it; each store call may suspend.
NextConcurrent ==
    \E c \in Callers :
         \/ \E amount \in Amounts, noReload \in BOOLEAN :
                ConcurrentProcess(c, amount, noReload)
         \/ ReloadAcquire(c)
         \/ ReloadFindSnapshot(c)
         \/ ReloadListEvents(c)
         \/ ReloadFoldEvent(c)
         \/ ReloadReturn(c)
         \/ ConcurrentHandle(c)
         \/ ConcurrentSave(c)
         \/ ConcurrentSettle(c)
         \/ ConcurrentSend(c)

SpecConcurrent == InitAggregate /\ [][NextConcurrent]_vars

NextSnapshots ==
    \/ \E id \in AggregateIds, version \in 1 .. MaxSnapshotVersion,
          state \in SnapshotStates : SaveSnapshotCall(id, version, state)
    \/ SaveSnapshotRun
    \/ \E id \in AggregateIds, version \in 0 .. MaxSnapshotVersion :
          FindLatestSnapshotCall(id, version)

SpecSnapshots == Init /\ [][NextSnapshots]_vars

NextEvents ==
    \/ \E amount \in OtherAmounts : OtherSave(amount)
    \/ \E id \in AggregateIds : OtherAggregateSave(id)
    \/ \E id \in AggregateIds, version \in 0 .. MaxLog : ListEventsCall(id, version)

SpecEvents == Init /\ [][NextEvents]_vars

NextFactory ==
    \/ \E l \in Loaders, id \in AggregateIds, noReload \in BOOLEAN :
          LoadCall(l, id, noReload)
    \/ \E l \in Loaders, fails \in BOOLEAN :
          \/ LoadConstructed(l, fails)
          \/ LoadReloaded(l, fails)
    \/ \E l \in Loaders : LoadAwaited(l)
    \/ \E id \in AggregateIds :
          \/ FactoryCacheExpire(id)
          \/ OtherAggregateSave(id)

SpecFactory == Init /\ [][NextFactory]_vars

NextSubscriber ==
    \/ \E given \in BOOLEAN : SubscriberReceive(given)
    \/ SubscriberHandleOk
    \/ \E err \in HandlerErrors : SubscriberHandleThrows(err)

SpecSubscriber == Init /\ [][NextSubscriber]_vars

NextWire ==
    \/ \E event \in WireEvents : Serialize(event)
    \/ Deserialize

SpecWire == Init /\ [][NextWire]_vars

\* One Projection object: its constructor, start() and stop() calls, and
\* the events its subscriptions hand to it.
NextStart ==
    \/ \E opts \in {"saveStream", "disableSaveStream"} : ProjectionConstruct(opts)
    \/ \E c \in Starters : StartCall(c)
    \/ \E c \in Starters : StartSaveStream(c)
    \/ \E c \in Starters : StartSaveStreamFails(c)
    \/ \E c \in Starters : StartSubscribe(c)
    \/ \E c \in Starters : StartAssign(c)
    \/ StopCall
    \/ StartedHandles

SpecStart == Init /\ [][NextStart]_vars

\* Two aggregates publish events the projection handles, through the
\* Broker, to the partitions of the projection's topic.
NextPartitions ==
    \/ \E id \in AggregateIds, ctx \in Ctxs :
          \E type \in HandledTypes : SendToMain(id, type, ctx)
    \/ SaveStream(ProjectionId, HandledTypes)
    \/ \E k \in Partitions : BrokerReceive(k)
    \/ BrokerFindStreams
    \/ BrokerSend
    \/ \E i \in Instances, k \in Partitions : Consume(i, k)
    \/ \E i \in Instances : Check(i)
    \/ \E i \in Instances : HandleOk(i)
    \/ \E i \in Instances : HandleThrows(i)
    \/ \E i \in Instances : Retry(i)
    \/ \E i \in Instances : SaveCheckpoint(i)

SpecPartitions == Init /\ [][NextPartitions]_vars

LiveAggregate ==
    SpecAggregate /\ WF_vars(Reload) /\ WF_vars(Handle) /\ WF_vars(Save)
                  /\ WF_vars(Send)

\* ------------------------------------------------------------ properties

\* The (aggregate_id, aggregate_version) keys a saved batch occupies.
BatchVersions(s) == s.version .. s.version + s.n - 1

\* The calls that resolved for (id, version).
SavedAt(id, version) == {s \in saved : s.id = id /\ s.version = version}

\* C1: for every aggregate id the versions listEvents returns are exactly
\* 1, 2, ..., n: they start at 1 and increase by one, without gap or duplicate.
C1_MonotonicVersions ==
    \A id \in Ids :
        LET l == listEvents(id, 0)
        IN  \A i \in 1 .. Len(l) : l[i].aggregate.version = i

C1_Witness ==
    \E id \in Ids :
        /\ Len(listEvents(id, 0)) >= 3
        /\ \E w \in Writers :
              call[w].pc = "done" /\ call[w].res = AggregateVersionConflictError

\* C2: of the saveEvents calls that claim the same starting version of an
\* aggregate at the end of its log, exactly one resolves; every other one
\* fails with AggregateVersionConflictError.
C2_OneWinner ==
    /\ \A id \in Ids, version \in 1 .. MaxVersion :
          Cardinality(SavedAt(id, version)) <= 1
    /\ \A w \in Writers :
          LET c == call[w] IN
          (c.pc = "done" /\ c.atTip /\ ~aggregates[c.id].final)
             => \/ c.res = "ok"
                \/ c.res \in ThrownCodes
                \/ /\ c.res = AggregateVersionConflictError
                   /\ Cardinality(SavedAt(c.id, c.version)) = 1

C2_Witness ==
    \E w1, w2 \in Writers :
        /\ w1 # w2
        /\ call[w1].pc = "done" /\ call[w2].pc = "done"
        /\ call[w1].atTip /\ call[w2].atTip
        /\ call[w1].id = call[w2].id
        /\ call[w1].version = 2 /\ call[w2].version = 2
        /\ call[w1].res = "ok"
        /\ call[w2].res = AggregateVersionConflictError

\* C3: saveEvents is all-or-nothing: the visible events are exactly the
\* batches of the calls that resolved, and the aggregate record carries the
\* version the last resolved call wrote; a call that failed left nothing.
C3_Atomic ==
    \A id \in Ids :
        LET mine == {s \in saved : s.id = id}
            keys == UNION {BatchVersions(s) : s \in mine}
        IN  /\ {e.aggregate_version : e \in EventsOf(id)} = keys
            /\ Cardinality(EventsOf(id)) = Cardinality(keys)
            /\ aggregates[id].exists <=> mine # {}
            /\ \A s \in mine : aggregates[id].version >= s.version + s.n - 1
            /\ mine # {} =>
                  \E s \in mine : aggregates[id].version = s.version + s.n - 1

C3_Witness ==
    \E w1, w2 \in Writers :
        /\ call[w1].pc = "done" /\ call[w1].res = "XX000"
        /\ call[w2].pc = "done" /\ call[w2].res = "40001"
        /\ call[w1].version = 2 /\ call[w2].version = 2
        /\ Cardinality(saved) = 1 /\ Cardinality(events) = 1

\* C4: a saveEvents call on an aggregate whose record is final fails with
\* AggregateIsFinalError, whatever version it claims.
C4_FinalRejects ==
    \A w \in Writers :
        (call[w].pc # "idle" /\ call[w].wasFinal)
           => call[w].pc = "done" /\ call[w].res = AggregateIsFinalError

C4_Witness ==
    \E w1, w2 \in Writers :
        /\ call[w1].wasFinal /\ call[w1].pc = "done" /\ call[w1].version = 1
        /\ call[w2].wasFinal /\ call[w2].pc = "done" /\ call[w2].version = 2

\* C5: after finalizeAggregate({id}) has returned, every later saveEvents
\* for that id fails with AggregateIsFinalError, also for an id that had no
\* event appended before the finalize call.
C5_FinalizedRejects ==
    \A w \in Writers :
        (call[w].pc = "done" /\ call[w].afterFinalize)
           => call[w].res = AggregateIsFinalError

\* The saveEvents calls the current (or last) process() call has made.
CallSaves == SubSeq(saveLog, agg.saves + 1, Len(saveLog))

\* Sequences flattened: the events of a sequence of batches, in order.
RECURSIVE Flatten(_)
Flatten(batches) ==
    IF batches = <<>> THEN <<>> ELSE Head(batches) \o Flatten(Tail(batches))

\* The first v events of the log of the aggregate.
LogUpTo(v) == SubSeq(listEvents(AggId, 0), 1, v)

\* C6: after n process() calls that each succeeded with a single-event
\* command on an empty store that nobody else writes, the aggregate has
\* version n and the state folded from the n produced events; the store got
\* exactly n saveEvents calls, the i-th claiming version i, and the stream
\* exactly n sendEvents calls.
C6_SuccessiveCommands ==
    LET n == Len(results) IN
    (/\ agg.pc \in {"idle", "resolved"}
     /\ \A i \in 1 .. n : results[i] = "ok"
     /\ Cardinality(events) = n)
      => /\ agg.version = n
         /\ agg.state = Replay(NewAggregate, Flatten(main)).state
         /\ Len(saveLog) = n
         /\ \A i \in 1 .. n : saveLog[i] = [version |-> i, res |-> "ok"]
         /\ Len(main) = n
         /\ \A i \in 1 .. n :
               Len(main[i]) = 1 /\ main[i][1].aggregate.version = i

C6_Witness ==
    /\ agg.pc = "resolved"
    /\ Len(results) = 3
    /\ \A i \in 1 .. 3 : results[i] = "ok"
    /\ Cardinality(events) = 3
    /\ agg.state.balance = 15

\* C7: when the command handler throws, process() rejects with that error,
\* is not retried, makes no saveEvents and no sendEvents call, and leaves the
\* state and the version as they were after the reload.
C7_DomainError ==
    agg.threw =>
        /\ agg.pc = "rejected"
        /\ agg.error = InsufficientBalance
        /\ results[Len(results)] = InsufficientBalance
        /\ agg.reloaded = [version |-> agg.version, state |-> agg.state,
                           saves |-> Len(saveLog), sends |-> Len(main)]

C7_Witness ==
    /\ agg.threw
    /\ agg.pc = "rejected"
    /\ agg.attempt = 1
    /\ agg.version = 2

\* C8: when a saveEvents attempt of process() was rejected with a version
\* conflict and a later attempt succeeded, process() reloaded, ran the
\* handler again on the reloaded state and saved at the reloaded version + 1:
\* state and version are those of the log replayed up to its own event, and
\* sendEvents was called once, with the event that was saved.
C8_ConflictRecovery ==
    (agg.pc = "resolved" /\ agg.attempt > 1) =>
        LET v == agg.version
            own == agg.batch[1]
            log == listEvents(AggId, 0)
        IN  /\ agg.attempt <= ProcessMaxAttempts
            /\ v = agg.reloaded.version + 1
            /\ Len(log) >= v
            /\ log[v] = own
            /\ agg.state = Replay(NewAggregate, LogUpTo(v)).state
            /\ own.body.balance =
                  Replay(NewAggregate, LogUpTo(v - 1)).state.balance + agg.amount
            /\ Len(main) = agg.sends + 1
            /\ main[Len(main)] = agg.batch
            /\ Len(CallSaves) = agg.attempt
            /\ CallSaves[agg.attempt] = [version |-> v, res |-> "ok"]
            /\ \A i \in 1 .. agg.attempt - 1 :
                  CallSaves[i].res = AggregateVersionConflictError

C8_Witness ==
    /\ agg.pc = "resolved"
    /\ agg.attempt = 2
    /\ agg.version = 3
    /\ agg.amount = -5

\* C9 (safety part): a process() call makes at most ProcessMaxAttempts
\* saveEvents calls; when all of them fail with a version conflict it has
\* rejected with that error and has not called sendEvents.
C9_Bounded ==
    /\ agg.attempt <= ProcessMaxAttempts
    /\ Len(CallSaves) <= ProcessMaxAttempts
    /\ (/\ Len(CallSaves) = ProcessMaxAttempts
        /\ \A i \in 1 .. Len(CallSaves) :
              CallSaves[i].res = AggregateVersionConflictError)
          => /\ agg.pc = "rejected"
             /\ agg.error = AggregateVersionConflictError
             /\ results[Len(results)] = AggregateVersionConflictError
             /\ Len(main) = agg.sends

\* C9: if every saveEvents attempt of a process() call fails with a version
\* conflict, the call ends, rejected, after at most the attempt cap of save
\* attempts, and never calls sendEvents.
C9_Terminates ==
    /\ []C9_Bounded
    /\ (agg.pc \in {"reload", "handle", "save", "send"})
          ~> (agg.pc \in {"resolved", "rejected"})

C9_Witness ==
    /\ agg.pc = "rejected"
    /\ agg.error = AggregateVersionConflictError
    /\ Len(CallSaves) = ProcessMaxAttempts

\* The row of table events a published event was saved as.
SavedAs(e) ==
    \E row \in events : ~row.final /\ RowToEvent(row) = e

\* C10: every event sent to stream `main` was saved by saveEvents before it
\* was sent.
C10_SentWasSaved ==
    /\ \A i \in 1 .. Len(main) :
          /\ \A j \in 1 .. Len(main[i]) : SavedAs(main[i][j])
          /\ \E k \in 1 .. Len(saveLog) :
                saveLog[k] = [version |-> main[i][1].aggregate.version,
                              res |-> "ok"]
    /\ agg.pc = "send" =>
          saveLog[Len(saveLog)] = [version |-> agg.batch[1].aggregate.version,
                                   res |-> "ok"]

C10_Witness ==
    /\ Len(main) = 2
    /\ \E i \in 1 .. Len(saveLog) : saveLog[i].res = AggregateVersionConflictError

\* ------------------------------------------------ properties: Projection

\* The stored checkpoint version of (ProjectionId, id); 0 without a row.
CheckpointOf(id) ==
    IF CheckpointRows(ProjectionId, id) = {} THEN 0
    ELSE (CHOOSE r \in CheckpointRows(ProjectionId, id) : TRUE).aggregate_version

\* How often the handler completed for the event (id, version).
Completions(id, version) ==
    Cardinality({k \in 1 .. Len(handledLog) :
                   handledLog[k] = [id |-> id, version |-> version]})

\* Deliveries came one at a time, each aggregate's events first arriving in
\* ascending version order.
OneAtATimeAscending == ~deliveries.overlapped /\ deliveries.ascending

AllIdle == \A i \in Instances : inst[i].pc = "idle"

C11_HandledOnce ==
    OneAtATimeAscending =>
        /\ \A id \in AggregateIds, v \in 1 .. MaxEventVersion :
              /\ Completions(id, v) <= 1
              /\ (AllIdle /\ arrived[<<id, v>>] \in HandledTypes)
                    => Completions(id, v) = 1
              /\ arrived[<<id, v>>] \notin HandledTypes => Completions(id, v) = 0
        /\ \A i \in Instances :
              inst[i].pc \in {"handle", "threw"}
                 => CheckpointOf(inst[i].id) < inst[i].version

C11_SkipStep ==
    \A i \in Instances :
        (/\ inst[i].pc = "check"
         /\ CheckpointOf(inst[i].id) >= inst[i].version
         /\ inst'[i] # inst[i])
           => /\ inst'[i].pc = "idle"
              /\ skipped' = skipped + 1
              /\ UNCHANGED <<projection_checkpoints, handledLog>>

\* C11: with deliveries handled one at a time, each aggregate's events first
\* arriving in ascending version order and any delivered event redelivered
\* any number of times, the handler completes exactly once per (aggregate id,
\* version); a redelivery of an event the checkpoint covers is skipped: the
\* handler is not invoked and the checkpoint does not change.
C11_ExactlyOnce == []C11_HandledOnce /\ [][C11_SkipStep]_vars

C11_Witness ==
    /\ OneAtATimeAscending
    /\ AllIdle
    /\ deliveries.count = MaxDeliveries
    /\ skipped >= 2
    /\ Len(handledLog) = 3
    /\ CheckpointOf("a") = 2

\* C12: for every aggregate id the stored checkpoint version of the
\* projection never decreases, whatever the deliveries and their
\* interleaving over the instances of the projection.
C12_CheckpointNeverDecreases ==
    [][\A id \in AggregateIds : CheckpointOf(id)' >= CheckpointOf(id)]_vars

\* The checkProjectionCheckpoint call of a handleEvent in progress returns
\* true exactly when no checkpoint of (projection, id) has a version >= the
\* event's version, and changes nothing stored.
C20_CheckStep ==
    \A i \in Instances :
        (inst[i].pc = "check" /\ inst'[i] # inst[i])
           => /\ inst'[i].pc = "handle"
                    <=> (CheckpointOf(inst[i].id) = 0
                         \/ CheckpointOf(inst[i].id) < inst[i].version)
              /\ inst'[i].pc = "idle"
                    <=> (CheckpointOf(inst[i].id) # 0
                         /\ CheckpointOf(inst[i].id) >= inst[i].version)
              /\ UNCHANGED <<projection_checkpoints, aggregates, events>>

\* C20: checkProjectionCheckpoint returns true exactly when there is no
\* checkpoint for (projection, id) with a stored version >= version, false
\* otherwise, and modifies no stored data.
C20_CheckProjectionCheckpoint == [][C20_CheckStep]_vars

C20_Witness ==
    /\ \E i \in Instances : inst[i].pc = "handle" /\ inst[i].id = "a"
                               /\ inst[i].version = 2
    /\ \E i \in Instances : inst[i].pc = "idle" /\ inst[i].covered
                               /\ inst[i].id = "a" /\ inst[i].version = 1
    /\ CheckpointOf("a") = 1
    /\ CheckpointOf("b") = 2

\* --------------------------------------------- properties: Broker, stream

\* The copies of an event waiting in the topic of a stream.
Copies(st, event) ==
    Cardinality({pos \in Partitions \X (1 .. MaxEventVersion) :
                   /\ pos[2] <= Len(topics[st][pos[1]])
                   /\ topics[st][pos[1]][pos[2]] = event})

\* Each event is received once, and it lies once on the topic of every
\* stream the Broker sent it to and on no other.
OneCopyPerStream ==
    /\ \A m, n \in 1 .. Len(routed) : routed[m].event = routed[n].event => m = n
    /\ \A n \in 1 .. Len(routed), st \in StreamIds :
          Copies(st, routed[n].event) = IF st \in routed[n].streams THEN 1 ELSE 0

\* C13 (as stated): the Broker puts one copy of each event it receives on
\* every stream whose registration contains the event's type, none on any
\* other stream, and publishes nothing when no stream is registered.
C13_RoutesToRegistered ==
    /\ OneCopyPerStream
    /\ \A n \in 1 .. Len(routed) : routed[n].streams = routed[n].registered

\* C13 (amended): the Broker puts one copy of each event it receives on every
\* stream findStreams returns and none on any other; these are the streams
\* whose registration contained the type when the config adapter last
\* queried the registry for the type, and the registered ones when no
\* registration of the type changed since.
C13_RoutesToKnown ==
    /\ OneCopyPerStream
    /\ \A n \in 1 .. Len(routed) :
          /\ routed[n].streams = routed[n].known
          /\ routed[n].known = routed[n].registered
                => routed[n].streams = routed[n].registered
    /\ broker.pc = "send" => broker.streams = broker.known /\ broker.streams # {}

C13_Witness ==
    /\ Len(routed) = 2
    /\ routed[1].streams = {ProjectionId, "q"}
    /\ routed[1].registered = {ProjectionId, "q"}
    /\ routed[2].streams = {"q"}
    /\ routed[2].event.type = "T2"

\* C19: findStreams does no negative caching: when the previous findStreams
\* of a type returned no stream and a stream containing the type has been
\* registered since, the next findStreams of the type returns that stream.
C19_NoNegativeCaching ==
    [][(/\ broker.pc = "find"
        /\ broker'.pc # "find"
        /\ cache[broker.event.type] = [hit |-> TRUE, streams |-> {}])
          => \A st \in StreamIds :
                broker.event.type \in registry[st] => st \in broker'.streams]_vars

\* C14: the handler of the projection completes for the events of one
\* aggregate in strictly ascending aggregate.version order, whatever the
\* meta.__ctx values of the events.
C14_AscendingPerAggregate ==
    \A m, n \in 1 .. Len(handledLog) :
        (m < n /\ handledLog[m].id = handledLog[n].id)
           => handledLog[m].version < handledLog[n].version


\* ------------------------------------------------------- Reload properties

\* The Aggregate folded from the whole log, each event once, from the zero
\* state.
FullFold == Replay(NewAggregate, listEvents(AggId, 0))

\* The Aggregate has the version and the state of the fold of the whole log.
AtFullFold == agg.version = FullFold.version /\ agg.state = FullFold.state

C15_ReturnStep ==
    \A c \in Callers :
        (/\ rl[c].pc = "fold" /\ rl'[c].pc = "done"
         /\ rl[c].fresh /\ rl[c].clean)
        => (AtFullFold /\ reload(NewAggregate).version = FullFold.version
                       /\ reload(NewAggregate).state = FullFold.state)

\* C15: whatever the event log and the snapshots stored at versions of it, a
\* reload() on a fresh aggregate, which takes the latest snapshot and replays
\* only the events after it, returns with the state and the version of the
\* fold of events 1..current from the zero state.
C15_SnapshotPlusTail == [][C15_ReturnStep]_vars

\* A reload() of a fresh aggregate returned after it took a snapshot at a
\* version below the tip and replayed the events after it.
C15_Witness ==
    \E c \in Callers :
        /\ rl[c].pc = "done" /\ rl[c].fresh /\ rl[c].clean
        /\ rl[c].from > 0
        /\ agg.version > rl[c].from
        /\ handlerKind = "accumulate"

SnapshotAt(v) ==
    [aggregate |-> [id |-> AggId, version |-> v],
     state |-> Replay(NewAggregate, LogUpTo(v)).state]

C17_ProcessStep ==
    IF Len(results') > Len(results) /\ results'[Len(results')] = "ok"
    THEN snapshotCalls' =
            IF agg'.version % SnapshotInterval = 0
            THEN Append(snapshotCalls, SnapshotAt(agg'.version))
            ELSE snapshotCalls
    ELSE snapshotCalls' = snapshotCalls

C17_Count ==
    LET n == Len(results) IN
    (/\ agg.pc \in {"idle", "resolved"}
     /\ \A i \in 1 .. n : results[i] = "ok"
     /\ Cardinality(events) = n)
      => /\ Len(snapshotCalls) = n \div SnapshotInterval
         /\ \A i \in 1 .. Len(snapshotCalls) :
               snapshotCalls[i] = SnapshotAt(i * SnapshotInterval)

\* C17: with snapshotInterval = k > 0, a process() that succeeds calls
\* saveSnapshot exactly when the version after its batch is a multiple of k,
\* with that version and the state after the batch, and no other step calls
\* it; n single-event commands from version 0, with no other writer, make
\* n div k calls, at versions k, 2k, ...
C17_SnapshotPolicy == []C17_Count /\ [][C17_ProcessStep]_vars

\* Three commands succeeded alone from version 0: one snapshot, at version 2.
C17_Witness ==
    /\ agg.pc = "resolved"
    /\ Len(results) = 3
    /\ \A i \in 1 .. 3 : results[i] = "ok"
    /\ Cardinality(events) = 3
    /\ Len(snapshotCalls) = 1
    /\ snapshotCalls[1].aggregate.version = 2

\* C18: every stored snapshot at version V has the events 1..V of its
\* aggregate in the log, and its state is the fold of those events from the
\* zero state.
C18_SnapshotIsFold ==
    \A r \in snapshots :
        /\ \A v \in 1 .. r.aggregate_version :
              \E e \in events : /\ e.aggregate_id = r.aggregate_id
                                /\ e.aggregate_version = v
        /\ r.state = SnapshotAt(r.aggregate_version).state

\* A snapshot is stored and the log has grown past its version.
C18_Witness ==
    \E r \in snapshots :
        /\ r.aggregate_version = SnapshotInterval
        /\ Len(listEvents(AggId, 0)) > r.aggregate_version
        /\ snapshotQueue = <<>>


\* ------------------------------------------------ Store adapter properties

\* The snapshot rows stored under a key.
SnapshotsAt(id, version) ==
    {r \in snapshots : r.aggregate_id = id /\ r.aggregate_version = version}

\* The last saveSnapshot call that ran for the key of call i.
LastSavedAt(i) ==
    CHOOSE j \in 1 .. Len(snapshotLog) :
        /\ snapshotLog[j].aggregate = snapshotLog[i].aggregate
        /\ \A k \in j + 1 .. Len(snapshotLog) :
              snapshotLog[k].aggregate # snapshotLog[i].aggregate

\* C21: saveSnapshot is an upsert keyed by (aggregate.id, aggregate.version):
\* every saveSnapshot call that ran succeeded, and its key holds exactly one
\* snapshot, with the state saved last under that key.
C21_SaveSnapshotUpserts ==
    \A i \in 1 .. Len(snapshotLog) :
        /\ snapshotLog[i].res = "ok"
        /\ \E r \in snapshots :
              /\ SnapshotsAt(snapshotLog[i].aggregate.id,
                             snapshotLog[i].aggregate.version) = {r}
              /\ r.state = snapshotLog[LastSavedAt(i)].state

C23_FindStep ==
    lookup' # lookup =>
        LET res == lookup'.snapshot
            above == {r \in snapshots : /\ r.aggregate_id = lookup'.id
                                        /\ r.aggregate_version > lookup'.version}
        IN  IF above = {} THEN ~res.found
            ELSE /\ res.found
                 /\ res.id = lookup'.id
                 /\ \E r \in above : /\ r.aggregate_version = res.version
                                     /\ r.state = res.state
                 /\ \A r \in above : r.aggregate_version <= res.version

\* C23: findLatestSnapshot({aggregate: {id, version}}) returns the stored
\* snapshot of id with the greatest version among those strictly above
\* version, null when id has none above version, and never a snapshot of
\* another aggregate.
C23_FindLatestSnapshot == [][C23_FindStep]_vars

\* A lookup returned the later of two snapshots of its aggregate while
\* another aggregate had a snapshot too.
C23_Witness ==
    /\ lookup.snapshot.found
    /\ lookup.snapshot.version = 2
    /\ SnapshotsAt(lookup.id, 1) # {}
    /\ SnapshotsAt(lookup.id, 2) # {}
    /\ \E r \in snapshots : r.aggregate_id # lookup.id

\* A lookup at the version of the only snapshot returned null.
C23_WitnessNull ==
    /\ lookup.calls > 0
    /\ ~lookup.snapshot.found
    /\ SnapshotsAt(lookup.id, lookup.version) # {}


\* The stored events of id above version (all of them for version 0), as
\* the generator yields them.
StoredAbove(id, version) ==
    {RowToEvent(e) : e \in {r \in events :
        /\ r.aggregate_id = id
        /\ (version = 0 \/ r.aggregate_version > version)}}

C22_ListStep ==
    listed' # listed =>
        LET evs == listed'.events IN
        /\ {evs[i] : i \in 1 .. Len(evs)} = StoredAbove(listed'.id, listed'.version)
        /\ \A i, j \in 1 .. Len(evs) :
              i < j => evs[i].aggregate.version < evs[j].aggregate.version
        /\ listed'.again => evs = listed.events

\* C22: listEvents({aggregate: {id, version}}) yields exactly the stored
\* events of id with a version above version (all of them for version 0),
\* in ascending version order, and yields the same events when it is called
\* again with no append in between.
C22_ListEvents == [][C22_ListStep]_vars

\* The same listing was made twice with no append in between, of an
\* aggregate with events at and below the version asked for, while another
\* aggregate had events too.
C22_Witness ==
    /\ listed.again
    /\ listed.version > 0
    /\ Len(listed.events) >= 2
    /\ listed.at = Cardinality(events)
    /\ \E e \in events : e.aggregate_id # listed.id


\* ---------------------------------------------- AggregateFactory properties

\* load() resolved for the caller, with the Aggregate instances[inst].
Received(l) == loaders[l].pc = "done" /\ loaders[l].res = "ok"

\* The load of l was in flight when the load of m was called.
StartedDuring(l, m) == l \in loaders[m].during

\* C24 as stated: when a load(id) found no entry cached and another load of
\* the same id was called while it ran, both receive the same Aggregate;
\* loads of different ids receive different Aggregates.
C24_ConcurrentLoadsShare ==
    \A l, m \in Loaders :
        (l # m /\ Received(l) /\ Received(m)) =>
            /\ (/\ loaders[l].id = loaders[m].id
                /\ StartedDuring(l, m) /\ loaders[l].miss)
                  => loaders[l].inst = loaders[m].inst
            /\ loaders[l].id # loaders[m].id
                  => loaders[l].inst # loaders[m].inst

\* C24, amended: while the cache entry of an id has not been evicted,
\* expired or deleted, one Aggregate is constructed for the id and every
\* load of the id receives that instance; loads of different ids receive
\* different instances.
C24_LoadsShareWhileCached ==
    /\ \A l, m \in Loaders :
          (l # m /\ Received(l) /\ Received(m)) =>
              /\ (loaders[l].id = loaders[m].id /\ loaders[l].id \notin removed)
                    => loaders[l].inst = loaders[m].inst
              /\ loaders[l].id # loaders[m].id
                    => loaders[l].inst # loaders[m].inst
    /\ \A id \in AggregateIds \ removed :
          Cardinality({n \in 1 .. Len(instances) : instances[n].id = id}) <= 1

\* Two loads of one id overlapped, the first constructing the Aggregate and
\* the second finding its promise cached; both received it, and a load of
\* the other id received another instance.
C24_Witness ==
    \E l, m, k \in Loaders :
        /\ Received(l) /\ Received(m) /\ Received(k)
        /\ loaders[l].id = loaders[m].id /\ loaders[l].id \notin removed
        /\ StartedDuring(l, m)
        /\ loaders[l].miss /\ ~loaders[m].miss
        /\ loaders[l].inst = loaders[m].inst
        /\ loaders[k].id # loaders[l].id

C25_LoadStep ==
    \A l \in Loaders :
        LET c == loaders[l]
            d == loaders'[l]
        IN  /\ (c.pc \in {"construct", "reload"} /\ d.res = StoreError)
                  => d.pc = "done" /\ c.id \notin CachedIds(lru')
            /\ (/\ c.pc = "await" /\ d.pc # "await"
                /\ instances[c.inst].promise = "rejected")
                  => d.pc = "done" /\ d.res = StoreError
            /\ (c.pc = "idle" /\ d.pc # "idle" /\ d.id \notin CachedIds(lru))
                  => /\ d.miss
                     /\ d.inst = Len(instances) + 1
                     /\ Len(instances') = Len(instances) + 1
                     /\ instances'[d.inst] = Constructed(d.id)
            /\ (c.pc = "construct" /\ d.res = "ok" /\ ~c.noReload)
                  => /\ d.version = Cardinality(EventsOf(c.id))
                     /\ instances'[c.inst].version = d.version

\* C25: when constructing or reloading the aggregate fails during load(id),
\* load rejects with that error and the cache has no entry for id; a load(id)
\* that finds no entry constructs a fresh Aggregate, and reloads it to the
\* tip of the log in the store.
C25_FailedLoadIsEvicted == [][C25_LoadStep]_vars

\* A load failed on an id with events in the store; a later load of the id
\* constructed another Aggregate and received it at the tip of the log.
C25_Witness ==
    \E l, m \in Loaders :
        /\ loaders[l].pc = "done" /\ loaders[l].res = StoreError
        /\ Received(m) /\ loaders[m].id = loaders[l].id
        /\ loaders[m].miss /\ loaders[m].inst > loaders[l].inst
        /\ l \notin loaders[m].during
        /\ loaders[m].version > 0
        /\ loaders[m].version = Cardinality(EventsOf(loaders[m].id))


\* ----------------------------------------------------- Subscriber properties

\* The errors the handler threw in the invocations before the last one.
ThrewBefore(n) == \A k \in 1 .. n : sub.invoked[k].res \in HandlerErrors

\* C26: when the handler throws, the same event is passed to it again until
\* it succeeds or numOfAttempts invocations have failed; when opts.retry.retry
\* is given and returns false for the error, the handler is not invoked again
\* for this delivery; in both cases the error propagates out of eachMessage.
C26_SubscriberRetries ==
    LET n == Len(sub.invoked) IN
    /\ n <= NumOfAttempts
    /\ \A k \in 1 .. n : sub.invoked[k].event = sub.event
    /\ sub.pc = "attempt" =>
          /\ n < NumOfAttempts
          /\ ThrewBefore(n)
          /\ sub.given => \A k \in 1 .. n : RetryPredicate(sub.invoked[k].res)
    /\ sub.pc = "resolved" =>
          n >= 1 /\ sub.invoked[n].res = "ok" /\ ThrewBefore(n - 1)
    /\ sub.pc = "rejected" =>
          /\ n >= 1 /\ ThrewBefore(n)
          /\ sub.error = sub.invoked[n].res
          /\ \/ n = NumOfAttempts
             \/ sub.given /\ ~RetryPredicate(sub.error)
          /\ \A k \in 1 .. n - 1 :
                sub.given => RetryPredicate(sub.invoked[k].res)

\* With opts.retry.retry given, the handler threw a retried error and then
\* one the predicate rejects: eachMessage rejected after two invocations.
C26_Witness ==
    /\ sub.pc = "rejected"
    /\ sub.given
    /\ Len(sub.invoked) = 2
    /\ sub.error = "fatal"

\* The attempts were used up: eachMessage rejected after numOfAttempts
\* invocations of the handler.
C26_WitnessBudget ==
    /\ sub.pc = "rejected"
    /\ Len(sub.invoked) = NumOfAttempts
    /\ ~sub.given


\* -------------------------------------------------- Serialization properties

\* C27: deserialize(serialize(e)) equals e in id, type, aggregate.id,
\* aggregate.version, body and meta, and its timestamp is that of e truncated
\* to whole seconds: e itself when the timestamp of e is a whole number of
\* seconds, with a body or with null, with meta.__ctx or without.
C27_RoundTrip ==
    wire.pc = "received" =>
        LET e == wire.input
            d == wire.output
        IN  /\ d.id = e.id
            /\ d.type = e.type
            /\ d.aggregate = e.aggregate
            /\ d.body = e.body
            /\ d.meta = e.meta
            /\ d.timestamp = e.timestamp - (e.timestamp % 1000)
            /\ e.timestamp % 1000 = 0 => d = e

\* An event with a Date and a Buffer in its body, meta.__ctx and a
\* timestamp between two seconds was serialized and deserialized.
C27_Witness ==
    /\ wire.pc = "received"
    /\ wire.input.timestamp = 1500
    /\ wire.output.timestamp = 1000
    /\ ~wire.input.body.null /\ ~wire.input.body.raw
    /\ "Date" \in DOMAIN wire.input.body.object
    /\ "__ctx" \in DOMAIN wire.input.meta

\* An event with body null, type 0 and a whole-second timestamp was
\* serialized and deserialized.
C27_WitnessNull ==
    /\ wire.pc = "received"
    /\ wire.input.body.null
    /\ wire.input.type = 0
    /\ wire.input.timestamp = 2000
    /\ wire.output = wire.input


\* ------------------------------------------------ Handler error properties

\* The event was handled successfully by an instance of the projection.
HandledSuccessfully(e) ==
    \E n \in 1 .. Len(handledLog) :
        handledLog[n].id = e[1] /\ handledLog[n].version = e[2]

C28_ThrowStep ==
    \A i \in Instances :
        /\ (inst[i].pc = "handle" /\ inst'[i].pc = "threw")
              => projection_checkpoints' = projection_checkpoints
        /\ (inst[i].pc = "threw" /\ inst'[i] # inst[i])
              => /\ inst'[i].pc = "check"
                 /\ inst'[i].id = inst[i].id /\ inst'[i].version = inst[i].version

C28_Blocked ==
    \A i \in Instances :
        (Cardinality(Assigned(i)) = 1 /\ inst[i].pc = "handle") =>
            \A e \in inst[i].failed :
                e = <<inst[i].id, inst[i].version>> \/ HandledSuccessfully(e)

\* C28: when the handler of a projection throws for an event, no checkpoint
\* is saved for it and handleEvent rethrows, the subscriber passes the event
\* to handleEvent again, and the handler is invoked for no later event of
\* the instance's partition until that event has been handled successfully.
C28_HandlerErrorBlocksPartition == []C28_Blocked /\ [][C28_ThrowStep]_vars

\* The two parts of C28 on their own.
C28_RethrowsAndRetries == [][C28_ThrowStep]_vars
C28_BlockedUntilHandled == []C28_Blocked

\* ------------------------------------------- Aggregate record properties

\* The highest aggregate_version among the committed events of id (0: none).
HighestEventVersion(id) ==
    LET vs == {e.aggregate_version : e \in EventsOf(id)}
    IN  IF vs = {} THEN 0 ELSE CHOOSE v \in vs : \A u \in vs : u <= v

\* C29: in every committed state the version of the aggregate record equals
\* the highest aggregate_version among the committed events of that
\* aggregate, which is also the number of its events; an aggregate without a
\* record has no events.  This holds whatever saveEvents calls (version >= 1,
\* non-empty batch) have resolved, failed or are running.
C29_RecordVersionIsLogLength ==
    \A id \in Ids :
        IF aggregates[id].exists
        THEN /\ aggregates[id].version = HighestEventVersion(id)
             /\ aggregates[id].version = Cardinality(EventsOf(id))
        ELSE EventsOf(id) = {}

C29_Witness ==
    \E id \in Ids, w1, w2 \in Writers :
        /\ aggregates[id].exists /\ aggregates[id].version = 3
        /\ \E s \in saved : s.id = id /\ s.version = 2 /\ s.n = 2
        /\ call[w1].pc = "done" /\ call[w1].id = id /\ call[w1].res = "ok"
        /\ call[w2].pc = "done" /\ call[w2].id = id
        /\ call[w2].res \in ThrownCodes \cup {AggregateVersionConflictError}

\* ------------------------------------------- Stream registry properties

C30_Step ==
    /\ registry' # registry =>
          /\ cache' = cache
          /\ \E st \in StreamIds :
                \A other \in StreamIds \ {st} : registry'[other] = registry[other]
    /\ \A type \in EventTypes :
          (cache[type].hit /\ cache'[type] # cache[type]) => cache'[type] = Miss
    /\ (broker.pc = "find" /\ broker'.pc # "find") =>
          LET type == broker.event.type IN
          /\ registry' = registry
          /\ IF cache[type].hit
             THEN broker'.streams = cache[type].streams
             ELSE /\ broker'.streams =
                        {st \in StreamIds : type \in registry[st]}
                  /\ cache'[type] = [hit |-> TRUE, streams |-> broker'.streams]

\* C30: saveStream changes the registration of its id only and leaves the
\* findStreams cache alone: a cached findStreams(T) result stays as it is
\* until its entry expires or is evicted and is what findStreams(T) returns
\* meanwhile, and a findStreams(T) that misses the cache returns exactly the
\* ids whose current registration contains T.
C30_SaveStreamLeavesCache == [][C30_Step]_vars

\* A cached result was returned after the registration of "q" had been
\* replaced by an event set without the type.
C30_Witness ==
    /\ Len(routed) = 2
    /\ routed[1].event.type = "T1" /\ routed[2].event.type = "T1"
    /\ routed[1].streams = {ProjectionId, "q"}
    /\ routed[1].registered = {ProjectionId, "q"}
    /\ routed[2].streams = {ProjectionId, "q"}
    /\ routed[2].registered = {ProjectionId}

\* After the entry expired the lookup returned the current registrations.
C30_WitnessMiss ==
    /\ Len(routed) = 2
    /\ routed[1].event.type = "T1" /\ routed[2].event.type = "T1"
    /\ routed[1].streams = {ProjectionId, "q"}
    /\ routed[2].streams = {ProjectionId}
    /\ routed[2].registered = {ProjectionId}

\* ------------------------------------------------- Broker order properties

C31_ReceiveStep ==
    (broker.pc = "idle" /\ broker'.pc # "idle") =>
        \E k \in Partitions :
            /\ topics["main"][k] # <<>>
            /\ broker'.event = Head(topics["main"][k])
            /\ k = PartitionOf(broker'.event)

C31_SendStep ==
    \A st \in StreamIds, k \in Partitions :
        topics'[st][k] # topics[st][k] =>
            /\ broker.pc = "send"
            /\ topics'[st][k] = Append(topics[st][k], broker.event)
            /\ k = PartitionOf(broker.event)

C31_Ordered ==
    \A st \in StreamIds, k1, k2 \in Partitions :
        \A m \in 1 .. Len(topics[st][k1]), n \in 1 .. Len(topics[st][k2]) :
            LET e1 == topics[st][k1][m]
                e2 == topics[st][k2][n]
            IN  (e1.ctx = e2.ctx /\ e1.version < e2.version)
                   => k1 = k2 /\ m < n

\* C31: of two events with equal meta.__ctx published to `main` in the
\* order e1, e2, every stream that receives both holds them on one
\* partition with every copy of e1 before every copy of e2: the Broker takes
\* the events of a partition of `main` in order, one at a time, and appends
\* each to the partition its __ctx selects.
C31_BrokerKeepsKeyOrder ==
    []C31_Ordered /\ [][C31_ReceiveStep /\ C31_SendStep]_vars

\* Both events had the same __ctx, the first was sent again after a failed
\* sendEvents, and the stream holds both.
C31_Witness ==
    /\ Len(routed) = 2
    /\ routed[1].event.ctx = <<3>> /\ routed[2].event.ctx = <<3>>
    /\ routed[1].event.version = 1 /\ routed[2].event.version = 2
    /\ ProjectionId \in routed[1].streams \cap routed[2].streams
    /\ Len(topics[ProjectionId][PartitionOf(routed[1].event)]) = 3

\* ------------------------------------------- Broker send-failure properties

\* The events of `id` waiting on `main`.
OnMain(id) ==
    {<<k, n>> \in Partitions \X (1 .. MaxEventVersion) :
        n <= Len(topics["main"][k]) /\ topics["main"][k][n].id = id}

\* The events of `id` the Broker finished handling.
Completed(id) == {n \in 1 .. Len(routed) : routed[n].event.id = id}

\* No event is lost: each published event waits on `main`, is being handled
\* or has been handled to the end.
C40_NotDropped ==
    \A id \in Publishers :
        published[id] = Cardinality(OnMain(id)) + Cardinality(Completed(id))
                          + (IF broker.pc # "idle" /\ broker.event.id = id
                             THEN 1 ELSE 0)

\* The handling of an event with streams ends with a sendEvents call that
\* put the event on the topic of each of them; a failed call ends nothing and
\* the same event is handled again.
C40_Step ==
    /\ (broker.pc = "send" /\ broker'.pc = "idle") =>
          /\ routed' = Append(routed, [event |-> broker.event,
                                        streams |-> broker.streams,
                                        registered |-> broker.registered,
                                        known |-> broker.known])
          /\ \A st \in broker.streams :
                LET k == PartitionOf(broker.event)
                IN  topics'[st][k] = Append(topics[st][k], broker.event)
    /\ (broker.pc = "send" /\ broker'.pc # "idle") =>
          /\ routed' = routed
          /\ broker'.event = broker.event
          /\ broker'.pc \in {"send", "find"}
    /\ Len(routed') > Len(routed) =>
          \/ broker.pc = "send"
          \/ broker.pc = "find" /\ findStreams(broker.event.type) = {}

\* The copies of an event on the topic of a stream, repeated sends included.
CopiesSent(st, event) ==
    Cardinality({pos \in Partitions \X
                            (1 .. MaxEventVersion * (MaxSendFailures + 1)) :
                   /\ pos[2] <= Len(topics[st][pos[1]])
                   /\ topics[st][pos[1]][pos[2]] = event})

C40_Delivered ==
    \A n \in 1 .. Len(routed) :
        \A st \in routed[n].streams : CopiesSent(st, routed[n].event) >= 1

C40_ToAllRegistered ==
    \A n \in 1 .. Len(routed) : routed[n].registered \subseteq routed[n].streams

\* C40 (as stated): the Broker completes the handling of an event that has
\* a registered stream only after a sendEvents call that carried the event to
\* all registered streams succeeded; when sendEvents fails the same event is
\* handled again and is not dropped.
C40_SendsToAllRegistered ==
    [](C40_NotDropped /\ C40_Delivered /\ C40_ToAllRegistered)
        /\ [][C40_Step]_vars

\* C40 (amended): the Broker completes the handling of an event for which
\* findStreams returned at least one stream only after a sendEvents call
\* that carried the event to all the streams findStreams returned succeeded;
\* when sendEvents fails the same event is handled again and is not dropped.
C40_SendsToAllFound ==
    [](C40_NotDropped /\ C40_Delivered) /\ [][C40_Step]_vars

\* A sendEvents call failed after it had written to the projection's topic,
\* and the repeated handling sent the event to both streams.
C40_Witness ==
    /\ Len(routed) = 1
    /\ routed[1].streams = {ProjectionId, "q"}
    /\ CopiesSent(ProjectionId, routed[1].event) = 2
    /\ CopiesSent("q", routed[1].event) = 1

\* ------------------------------------------------ Projection.start properties

C32_SubscribeStep ==
    \A c \in Starters :
        (c \in starts'.live /\ c \notin starts.live) =>
            IF starts.opts = "disableSaveStream"
            THEN ~starts.call[c].registered /\ starts.saveStreams = 0
            ELSE /\ starts.call[c].registered
                 /\ registry[ProjectionId] = {"T1"}

C32_Registered ==
    /\ starts.opts = "saveStream" => ~starts.early
    /\ starts.opts = "disableSaveStream" =>
          starts.saveStreams = 0 /\ registry[ProjectionId] = {}

\* C32: start() subscribes only after its saveStream call, with the distinct
\* event types of the handlers, has resolved, so no event is handled before
\* the registration is stored; with disableSaveStream it subscribes without
\* any saveStream call.
C32_RegistersBeforeSubscribing ==
    []C32_Registered /\ [][C32_SubscribeStep]_vars

C32_Witness ==
    /\ starts.opts = "saveStream"
    /\ starts.live # {}
    /\ starts.handled = MaxStartHandled
    /\ starts.saveStreams = 1

C32_WitnessDisabled ==
    /\ starts.opts = "disableSaveStream"
    /\ starts.live # {}
    /\ starts.handled > 0

\* C36: a Projection object holds at most one live subscription: a start()
\* call made while the projection is started or while another start() call
\* is in progress fails with 'already started', registers nothing and does
\* not subscribe.
C36_OneSubscription ==
    /\ Cardinality(starts.live) <= 1
    /\ \A c \in Starters :
          starts.call[c].overlapped =>
              /\ starts.call[c].pc = "failed"
              /\ starts.call[c].res = AlreadyStarted
              /\ ~starts.call[c].registered

\* A start() call made once the subscriber is assigned is refused.
C36_RefusedWhenStarted ==
    [][\A c \in Starters :
          (/\ starts.subscriber # None
           /\ starts.call[c].pc \in {"idle", "done", "failed"}
           /\ starts'.call[c] # starts.call[c])
             => /\ starts'.call[c].pc = "failed"
                /\ starts'.call[c].res = AlreadyStarted
                /\ starts'.live = starts.live
                /\ starts'.saveStreams = starts.saveStreams]_vars

\* ------------------------------------------------ Missing handler properties

\* C33: process() of a command whose type has no command handler fails with
\* CommandHandlerMissing; it made no saveEvents and no sendEvents call, and
\* the Aggregate's state and version are those its reload left.
C33_CommandHandlerMissing ==
    (agg.pc \in {"resolved", "rejected"} /\ agg.type \notin CommandHandlerTypes) =>
        /\ agg.pc = "rejected"
        /\ agg.error = CommandHandlerMissing
        /\ results[Len(results)] = CommandHandlerMissing
        /\ Len(saveLog) = agg.saves
        /\ Len(main) = agg.sends
        /\ agg.batch = <<>>
        /\ agg.version = agg.reloaded.version
        /\ agg.state = agg.reloaded.state

\* The command without a handler came after one that appended an event, and
\* the reload had brought the Aggregate to the end of the log.
C33_Witness ==
    /\ agg.pc = "rejected"
    /\ agg.type = "CloseAccount"
    /\ agg.error = CommandHandlerMissing
    /\ agg.version = 2
    /\ Len(saveLog) = 1
    /\ Len(results) = 2

\* -------------------------------------------------- saveEvents retry properties

\* The attempt of writer w that is running.
InAttempt(w) == call[w].pc \in {"begin", "checked", "inserting"}

C34_RetryStep ==
    \A w \in Writers :
        /\ (InAttempt(w) /\ call'[w].attempt # call[w].attempt
                         /\ call'[w].pc # "done") =>
              /\ call'[w].pc = "begin"
              /\ call'[w].last \in {"40001", "40P01"}
              /\ call[w].attempt < RetryMaxAttempts
              /\ call'[w].attempt = call[w].attempt + 1
        /\ (InAttempt(w) /\ call'[w].pc = "done"
                         /\ call'[w].res \in {"40001", "40P01"}) =>
              call[w].attempt = RetryMaxAttempts
        /\ (InAttempt(w) /\ call'[w].pc = "done") =>
              call'[w].res \in {"ok", AggregateVersionConflictError,
                                AggregateIsFinalError, UniqueViolation}
                                  \cup ThrownCodes

C34_AttemptsBounded ==
    \A w \in Writers :
        /\ call[w].attempt <= RetryMaxAttempts
        /\ (InAttempt(w) /\ call[w].attempt > 1) => call[w].last \in {"40001", "40P01"}

\* C34: saveEvents runs a further attempt only after an error with code
\* 40001 or 40P01 and only while fewer than retryMaxAttempts attempts were
\* made, and then rejects with the last error; a version conflict, a final
\* aggregate and any other error end the call in the attempt that threw.
C34_RetriesOnlyTransient == []C34_AttemptsBounded /\ [][C34_RetryStep]_vars

\* One call used up its attempts on serialization failures, another ended
\* with an unclassified error.
C34_Witness ==
    \E w1, w2 \in Writers :
        /\ call[w1].pc = "done" /\ call[w1].res = "40001"
        /\ call[w2].pc = "done" /\ call[w2].res = "XX000"
        /\ saved = {}

\* ------------------------------------------------------ Finalize properties

\* The versions of the committed events of id.
VersionsOf(id) == {e.aggregate_version : e \in EventsOf(id)}

C35_AllMarked ==
    \A id \in Ids :
        aggregates[id].final => \A e \in EventsOf(id) : e.final

C35_AppendStep ==
    \A id \in Ids :
        aggregates[id].final =>
            /\ aggregates'[id].final
            /\ {e.aggregate_version : e \in {f \in events' : f.aggregate_id = id}}
                  = VersionsOf(id)

\* C35: whatever the interleaving of finalizeAggregate and saveEvents on an
\* aggregate, in every committed state where the aggregate record is final
\* every committed event of the aggregate is marked final, and no event is
\* appended once the record is final.
C35_FinalMarksAllEvents == []C35_AllMarked /\ [][C35_AppendStep]_vars

\* A saveEvents call that was at the end of the log when it began lost to a
\* finalizeAggregate that committed first; the event saved before is final.
C35_Witness ==
    \E id \in Ids, w \in Writers :
        /\ aggregates[id].final
        /\ Cardinality(EventsOf(id)) = 1
        /\ Cardinality(saved) = 1
        /\ call[w].pc = "done" /\ call[w].id = id
        /\ call[w].atTip /\ ~call[w].wasFinal /\ call[w].version = 2
        /\ call[w].res = AggregateVersionConflictError

\* ------------------------------------------------ Failed load properties

C37_FailStep ==
    \A l \in Loaders :
        (loaders[l].res # StoreError /\ loaders'[l].res = StoreError) =>
            LET n == CacheGet(lru, loaders[l].id)
            IN  (n # 0 /\ n # loaders[l].inst) =>
                    CacheGet(lru', loaders[l].id) = n

\* C37: a load(id) that fails removes from the cache only the entry it
\* created or awaited: an entry of the same id that a later load created,
\* after the first was cleared, evicted or had expired, stays cached.
C37_FailedLoadRemovesOwnEntry == [][C37_FailStep]_vars

\* ----------------------------------------------------------------- C38

\* Both process() calls on the shared instance have resolved.
BothResolved == \A c \in Callers : procs[c].pc = "resolved"

\* The events of the two calls are in the log at versions 1 and 2.
C38_ConsecutiveInLog ==
    BothResolved =>
        /\ Len(listEvents(AggId, 0)) = 2
        /\ \A c \in Callers : \E n \in 1 .. 2 :
              /\ listEvents(AggId, 0)[n] = procs[c].batch[1]
              /\ procs[c].batch[1].aggregate.version = n

C39_SkipStep ==
    \A i \in Instances :
        (/\ inst[i].pc = "check"
         /\ inst'[i].pc = "idle"
         /\ skipped' = skipped + 1)
           => HandledSuccessfully(<<inst[i].id, inst[i].version>>)

\* C39: a projection skips an event whose type has a handler only if that
\* same event (aggregate id and version) was already handled successfully by
\* the projection, whatever the order the events are delivered in.
C39_SkipsOnlyHandled == [][C39_SkipStep]_vars

====
